---------------------------- MODULE Spec2Model ----------------------------
(***************************************************************************)
(* Layout reconstruction of src/main_easy.py (and its copy in              *)
(* src/EXP/main_easy.py): analyze_layout with the nested group_by_lines,   *)
(* and the normaliser fix_common_ocr_errors it applies to every fragment.  *)
(*                                                                         *)
(* Representation.                                                         *)
(*   - A Python str is a sequence of one-character strings.                *)
(*   - Corner coordinates of an OCR box are given in half pixels (the      *)
(*     integer 47 stands for 23.5 px), so that int() has something to       *)
(*     truncate.  bbox entries are whole pixels, as int() returns them.    *)
(*   - center_x, center_y and the y recomputed by group_by_lines are       *)
(*     halves of sums, so they are kept in quarter pixels; y_thresh is in  *)
(*     pixels and is scaled by Quarter where it is compared.               *)
(***************************************************************************)
EXTENDS Integers, Sequences, FiniteSets, TLC

(***************************************************************************)
(* Character classes of Python's re module for str patterns.               *)
(***************************************************************************)
WhiteSpace == {" ", "\t", "\n", "\r", "\f"}

Sep == WhiteSpace \cup {"_"}

WordChars ==
  {"a","b","c","d","e","f","g","h","i","j","k","l","m",
   "n","o","p","q","r","s","t","u","v","w","x","y","z",
   "A","B","C","D","E","F","G","H","I","J","K","L","M",
   "N","O","P","Q","R","S","T","U","V","W","X","Y","Z",
   "0","1","2","3","4","5","6","7","8","9","_"}

\* Index just after the maximal run of characters of C that starts at i
\* (i itself when s[i] is not in C): a greedy  [C]*  anchored at i.
RECURSIVE RunEnd(_, _, _)
RunEnd(s, i, C) ==
  IF i <= Len(s) /\ s[i] \in C THEN RunEnd(s, i + 1, C) ELSE i

\* s[i..i+2] = "com"
ComAt(s, i) ==
  i + 2 <= Len(s) /\ s[i] = "c" /\ s[i + 1] = "o" /\ s[i + 2] = "m"

(***************************************************************************)
(* Match(pat, s, i): the regular expression pat tried at position i of s.  *)
(* The result is the index just after the match, or 0 when pat does not    *)
(* match at i.  Every pattern consumes at least one character.             *)
(***************************************************************************)
MatchHttps(s, i) ==                       \* https?I+  with re.IGNORECASE
  LET II == {"I", "i"}
      http == /\ i + 3 <= Len(s)
              /\ s[i] \in {"h", "H"}
              /\ s[i + 1] \in {"t", "T"}
              /\ s[i + 2] \in {"t", "T"}
              /\ s[i + 3] \in {"p", "P"}
      j == i + 4
      withS == j <= Len(s) /\ s[j] \in {"s", "S"} /\ RunEnd(s, j + 1, II) > j + 1
  IN  IF ~http THEN 0
      ELSE IF withS THEN RunEnd(s, j + 1, II)
      ELSE IF RunEnd(s, j, II) > j THEN RunEnd(s, j, II)
      ELSE 0

MatchWww(s, i) ==                         \* wwW|wWw|WwW|WWW
  IF /\ i + 2 <= Len(s)
     /\ <<s[i], s[i + 1], s[i + 2]>> \in
          {<<"w","w","W">>, <<"w","W","w">>, <<"W","w","W">>, <<"W","W","W">>}
  THEN i + 3 ELSE 0

MatchSepComSep(s, i) ==                   \* [\s_]+com[\s_]+
  LET j == RunEnd(s, i, Sep)
  IN  IF j > i /\ ComAt(s, j) /\ RunEnd(s, j + 3, Sep) > j + 3
      THEN RunEnd(s, j + 3, Sep) ELSE 0

MatchSepCom(s, i) ==                      \* [\s_]+com
  LET j == RunEnd(s, i, Sep)
  IN  IF j > i /\ ComAt(s, j) THEN j + 3 ELSE 0

\* MatchSep for the pattern \s+
MatchSep_SpacesOnly(s, i) ==
  LET j == RunEnd(s, i, WhiteSpace) IN IF j > i THEN j ELSE 0

\* [\s_]+
MatchSep(s, i) ==
  LET j == RunEnd(s, i, Sep) IN IF j > i THEN j ELSE 0

MatchPunct(s, i) ==                       \* (?<=\w)[,;](?=\w)
  IF /\ 1 < i /\ i < Len(s)
     /\ s[i] \in {",", ";"}
     /\ s[i - 1] \in WordChars
     /\ s[i + 1] \in WordChars
  THEN i + 1 ELSE 0

MatchDots(s, i) ==                        \* \.\.+
  LET j == RunEnd(s, i, {"."}) IN IF j > i + 1 THEN j ELSE 0

MatchAround(c, s, i) ==                   \* \s*c\s*  for a literal c
  LET j == RunEnd(s, i, WhiteSpace)
  IN  IF j <= Len(s) /\ s[j] = c THEN RunEnd(s, j + 1, WhiteSpace) ELSE 0

Match(pat, s, i) ==
  CASE pat = "https"      -> MatchHttps(s, i)
    [] pat = "www"        -> MatchWww(s, i)
    [] pat = "sep_com_sep" -> MatchSepComSep(s, i)
    [] pat = "sep_com"    -> MatchSepCom(s, i)
    [] pat = "sep"        -> MatchSep(s, i)
    [] pat = "punct"      -> MatchPunct(s, i)
    [] pat = "dots"       -> MatchDots(s, i)
    [] pat = "at"         -> MatchAround("@", s, i)
    [] pat = "dot"        -> MatchAround(".", s, i)

\* re.sub(pat, repl, s) from position i on: leftmost non-overlapping matches,
\* each replaced by repl, everything else copied.
RECURSIVE ReSubFrom(_, _, _, _)
ReSubFrom(pat, repl, s, i) ==
  IF i > Len(s) THEN <<>>
  ELSE LET e == Match(pat, s, i)
       IN  IF e > 0 THEN repl \o ReSubFrom(pat, repl, s, e)
           ELSE <<s[i]>> \o ReSubFrom(pat, repl, s, i + 1)

ReSub(pat, repl, s) == ReSubFrom(pat, repl, s, 1)

\* fix_common_ocr_errors whose step 5 writes a space for a run of
\* whitespace or underscores
fix_common_ocr_errors_SepToSpace(text) ==
  LET t1 == ReSub("https", <<"h","t","t","p","s",":","/","/">>, text)
      t2 == ReSub("www", <<"w","w","w">>, t1)
      t3 == ReSub("sep_com_sep", <<".","c","o","m",".">>, t2)
      t4 == ReSub("sep_com", <<".","c","o","m">>, t3)
      t5 == ReSub("sep", <<" ">>, t4)
      t6 == ReSub("punct", <<".">>, t5)
      t7 == ReSub("dots", <<".">>, t6)
  IN  t7

\* UrlSteps without the step that removes double dots
UrlSteps_NoCollapse(text) ==
  LET t1 == ReSub("https", <<"h","t","t","p","s",":","/","/">>, text)
      t2 == ReSub("www", <<"w","w","w">>, t1)
      t3 == ReSub("sep_com_sep", <<".","c","o","m",".">>, t2)
      t4 == ReSub("sep_com", <<".","c","o","m">>, t3)
      t5 == ReSub("sep", <<".">>, t4)
      t6 == ReSub("punct", <<".">>, t5)
  IN  t6

\* the substitutions of fix_common_ocr_errors up to "Remove double dots"
UrlSteps(text) ==
  LET t1 == ReSub("https", <<"h","t","t","p","s",":","/","/">>, text)
      t2 == ReSub("www", <<"w","w","w">>, t1)
      t3 == ReSub("sep_com_sep", <<".","c","o","m",".">>, t2)
      t4 == ReSub("sep_com", <<".","c","o","m">>, t3)
      t5 == ReSub("sep", <<".">>, t4)
      t6 == ReSub("punct", <<".">>, t5)
      t7 == ReSub("dots", <<".">>, t6)
  IN  t7

\* "Fix common email mistakes": the two substitutions around @ and around .
EmailSteps(text) == ReSub("dot", <<".">>, ReSub("at", <<"@">>, text))

fix_common_ocr_errors(text) == EmailSteps(UrlSteps(text))

\* str.strip(): leading and trailing whitespace removed.
RECURSIVE LStrip(_)
LStrip(s) ==
  IF s # <<>> /\ s[1] \in WhiteSpace THEN LStrip(Tail(s)) ELSE s

RECURSIVE RStrip(_)
RStrip(s) ==
  IF s # <<>> /\ s[Len(s)] \in WhiteSpace
  THEN RStrip(SubSeq(s, 1, Len(s) - 1)) ELSE s

Strip(s) == RStrip(LStrip(s))

\* " ".join(texts)
RECURSIVE JoinSpace(_)
JoinSpace(texts) ==
  IF texts = <<>> THEN <<>>
  ELSE IF Len(texts) = 1 THEN texts[1]
  ELSE texts[1] \o <<" ">> \o JoinSpace(Tail(texts))


(***************************************************************************)
(* Numbers.                                                                *)
(***************************************************************************)
Quarter == 4                  \* quarter pixels per pixel

DefaultYThresh == 24          \* def group_by_lines(boxes, y_thresh=24)

None == -1                    \* Python's None for prev_y (no y is negative)

Abs(v) == IF v < 0 THEN -v ELSE v

\* int(v) for a coordinate v given in half pixels: truncation toward zero.
PyInt(h) == IF h >= 0 THEN h \div 2 ELSE -((-h) \div 2)

RECURSIVE SeqMin(_)
SeqMin(s) ==
  IF Len(s) = 1 THEN s[1]
  ELSE LET m == SeqMin(Tail(s)) IN IF s[1] <= m THEN s[1] ELSE m

RECURSIVE SeqMax(_)
SeqMax(s) ==
  IF Len(s) = 1 THEN s[1]
  ELSE LET m == SeqMax(Tail(s)) IN IF s[1] >= m THEN s[1] ELSE m

\* for bbox, text, conf in ocr_results  can unpack the entry
IsTriple(frag) == DOMAIN frag = {"box", "text", "conf"}

\* the loop body raises for the entry: the unpacking fails (ValueError), or
\* the text is not blank and min(xs) gets an empty list (ValueError), or
\* pt[1] does not exist (IndexError)
Raises(frag) ==
  \/ ~IsTriple(frag)
  \/ /\ Strip(frag.text) # <<>>
     /\ \/ frag.box = <<>>
        \/ \E c \in 1..Len(frag.box) : Len(frag.box[c]) < 2

(***************************************************************************)
(* Step 1 of analyze_layout: one block per fragment whose text is not      *)
(* blank.  A fragment is [box, text, conf], box a sequence of <<x, y>>.     *)
(***************************************************************************)
BlockOf(frag) ==
  LET xs == [k \in 1..Len(frag.box) |-> frag.box[k][1]]
      ys == [k \in 1..Len(frag.box) |-> frag.box[k][2]]
      x1 == SeqMin(xs)
      x2 == SeqMax(xs)
      y1 == SeqMin(ys)
      y2 == SeqMax(ys)
  IN  [text     |-> Strip(fix_common_ocr_errors(frag.text)),
       conf     |-> frag.conf,
       bbox     |-> <<PyInt(x1), PyInt(y1), PyInt(x2), PyInt(y2)>>,
       center_y |-> y1 + y2,
       center_x |-> x1 + x2]

RECURSIVE BlocksOf(_)
BlocksOf(results) ==
  IF results = <<>> THEN <<>>
  ELSE IF Strip(results[1].text) = <<>> THEN BlocksOf(Tail(results))
  ELSE <<BlockOf(results[1])>> \o BlocksOf(Tail(results))

(***************************************************************************)
(* sorted(seq, key=...): Python's sort is stable.  The two keys used by    *)
(* analyze_layout are x["center_y"] and x["bbox"][0].                      *)
(***************************************************************************)
KeyOf(key, b) == IF key = "center_y" THEN b.center_y ELSE b.bbox[1]

\* InsertSorted placing b in front of the elements with an equal key
RECURSIVE InsertSorted_Unstable(_, _, _)
InsertSorted_Unstable(key, b, s) ==
  IF s = <<>> THEN <<b>>
  ELSE IF KeyOf(key, s[1]) < KeyOf(key, b)
       THEN <<s[1]>> \o InsertSorted_Unstable(key, b, Tail(s))
       ELSE <<b>> \o s

\* b goes behind every element whose key is not larger than its own.
RECURSIVE InsertSorted(_, _, _)
InsertSorted(key, b, s) ==
  IF s = <<>> THEN <<b>>
  ELSE IF KeyOf(key, s[1]) <= KeyOf(key, b)
       THEN <<s[1]>> \o InsertSorted(key, b, Tail(s))
       ELSE <<b>> \o s

RECURSIVE SortedPrefix(_, _, _)
SortedPrefix(key, s, n) ==
  IF n = 0 THEN <<>>
  ELSE InsertSorted(key, s[n], SortedPrefix(key, s, n - 1))

\* sorted without the left-to-right sort of a line
sorted_OnlyCenterY(s, key) ==
  IF key = "center_y" THEN SortedPrefix(key, s, Len(s)) ELSE s

sorted(s, key) == SortedPrefix(key, s, Len(s))

\* the y that group_by_lines recomputes from the integer bbox, in quarter pixels
LineY(box) == 2 * (box.bbox[2] + box.bbox[4])

\* texts = [b["text"] for b in line]
TextsOf(line) == [k \in 1..Len(line) |-> line[k].text]

\* structured["sections"] and "table" in structured["sections"][-1]
LastIsTable(sections) ==
  sections # <<>> /\ "table" \in DOMAIN sections[Len(sections)]

(***************************************************************************)
(* The loop bodies of group_by_lines and of the classification pass.       *)
(***************************************************************************)
\* SameLine with <= for <
SameLine_AtMost(prev, y, thresh) ==
  prev = None \/ Abs(y - prev) <= Quarter * thresh

\* prev_y is None or abs(y - prev_y) < y_thresh
SameLine(prev, y, thresh) ==
  prev = None \/ Abs(y - prev) < Quarter * thresh

\* IsTitleLine without the test of title_set
IsTitleLine_NoFlag(ts, texts) == Len(JoinSpace(texts)) > 5

\* IsTitleLine with >= 5 for > 5
IsTitleLine_AtLeast5(ts, texts) == ~ts /\ Len(JoinSpace(texts)) >= 5

\* not title_set and len(" ".join(texts)) > 5
IsTitleLine(ts, texts) == ~ts /\ Len(JoinSpace(texts)) > 5

\* AddTableRow that opens a new table section for every row
AddTableRow_AlwaysNew(sections, texts) ==
  Append(sections, [table |-> <<texts>>])

\* AddTableRow that puts the new row in front of the rows of the table
AddTableRow_Prepend(sections, texts) ==
  IF LastIsTable(sections)
  THEN [sections EXCEPT ![Len(sections)] =
          [table |-> <<texts>> \o sections[Len(sections)].table]]
  ELSE Append(sections, [table |-> <<texts>>])

\* the branch  elif len(line) >= 2
AddTableRow(sections, texts) ==
  IF LastIsTable(sections)
  THEN [sections EXCEPT ![Len(sections)] =
          [table |-> Append(sections[Len(sections)].table, texts)]]
  ELSE Append(sections, [table |-> <<texts>>])

\* AddParagraph that joins the text to a paragraph just before it
AddParagraph_Merge(sections, texts) ==
  IF sections # <<>> /\ "paragraph" \in DOMAIN sections[Len(sections)]
  THEN [sections EXCEPT ![Len(sections)] =
          [paragraph |-> sections[Len(sections)].paragraph \o <<" ">> \o texts[1]]]
  ELSE Append(sections, [paragraph |-> texts[1]])

\* the branch  else
AddParagraph(sections, texts) ==
  Append(sections, [paragraph |-> texts[1]])

\* AddLine with len(line) >= 3 for len(line) >= 2
AddLine_MinThree(sections, line, texts) ==
  IF Len(line) >= 3 THEN AddTableRow(sections, texts)
  ELSE AddParagraph(sections, texts)

\* AddLine with len(line) >= 1 for len(line) >= 2
AddLine_MinOne(sections, line, texts) ==
  IF Len(line) >= 1 THEN AddTableRow(sections, texts)
  ELSE AddParagraph(sections, texts)

\* the sections after one line that is not taken as the title
AddLine(sections, line, texts) ==
  IF Len(line) >= 2 THEN AddTableRow(sections, texts)
  ELSE AddParagraph(sections, texts)

(***************************************************************************)
(* analyze_layout as a function of its argument, for inputs on which step  *)
(* 1 does not raise: the value the call returns when it runs alone, with   *)
(* new local variables.                                                    *)
(***************************************************************************)
RECURSIVE GroupFrom(_, _, _, _, _, _)
GroupFrom(boxes, thresh, k, ls, cur, prev) ==
  IF k > Len(boxes) THEN (IF cur # <<>> THEN Append(ls, cur) ELSE ls)
  ELSE LET y == LineY(boxes[k])
       IN  IF SameLine(prev, y, thresh)
           THEN GroupFrom(boxes, thresh, k + 1, ls, Append(cur, boxes[k]), y)
           ELSE GroupFrom(boxes, thresh, k + 1, Append(ls, cur), <<boxes[k]>>, y)

group_by_lines(boxes, thresh) == GroupFrom(boxes, thresh, 1, <<>>, <<>>, None)

RECURSIVE ClassifyFrom(_, _, _, _)
ClassifyFrom(ls, k, doc, ts) ==
  IF k > Len(ls) THEN doc
  ELSE LET line == sorted(ls[k], "min_x")
           texts == TextsOf(line)
       IN  IF IsTitleLine(ts, texts)
           THEN ClassifyFrom(ls, k + 1, [doc EXCEPT !.title = JoinSpace(texts)], TRUE)
           ELSE ClassifyFrom(ls, k + 1,
                             [doc EXCEPT !.sections = AddLine(doc.sections, line, texts)],
                             ts)

analyze_layout(results) ==
  ClassifyFrom(group_by_lines(sorted(BlocksOf(results), "center_y"), DefaultYThresh),
               1, [title |-> <<>>, sections |-> <<>>], FALSE)

(***************************************************************************)
(* to_markdown.  The function builds a list  lines  of strings and returns *)
(* "\n".join(lines); an entry of the list may itself hold line feeds.      *)
(* src/main_easy.py and src/EXP/main_easy.py differ in the table branch.   *)
(***************************************************************************)
NL == "\n"

\* sep.join(strs) of Python
RECURSIVE Join(_, _)
Join(sep, strs) ==
  IF strs = <<>> THEN <<>>
  ELSE IF Len(strs) = 1 THEN strs[1]
  ELSE strs[1] \o sep \o Join(sep, Tail(strs))

S_Bar == <<" ", "|", " ">>

S_Dashes == <<"-", "-", "-">>

\* f"# {structured['title']}"
HeaderLine(title) == <<"#", " ">> \o title

\* ParagraphEntry without the line feeds around the text
ParagraphEntry_Bare(p) == p

\* f"\n{sec['paragraph']}\n"
ParagraphEntry(p) == <<NL>> \o p \o <<NL>>

\* "| " + " | ".join(row) + " |"
PipeRow(row) == <<"|", " ">> \o Join(S_Bar, row) \o <<" ", "|">>

\* "| " + " | ".join(["---"] * len(table[0])) + " |"
SepRow(row) == PipeRow([c \in 1..Len(row) |-> S_Dashes])

\* the entries that src/main_easy.py appends for one table section
TableEntries(table) ==
  IF Len(table[1]) > 1 THEN <<PipeRow(table[1]), SepRow(table[1])>>
  ELSE <<table[1][1]>>

\* the entries that src/EXP/main_easy.py appends for one table section
EXP_TableEntries(table) ==
  <<PipeRow(table[1]), SepRow(table[1])>>
    \o [r \in 1..(Len(table) - 1) |-> PipeRow(table[r + 1])]

\* the entries appended for one section by the script  v
SectionEntries(v, sec) ==
  IF "paragraph" \in DOMAIN sec THEN <<ParagraphEntry(sec.paragraph)>>
  ELSE IF "table" \in DOMAIN sec
       THEN IF v = "EXP" THEN EXP_TableEntries(sec.table)
            ELSE TableEntries(sec.table)
       ELSE <<>>

RECURSIVE SectionsEntries(_, _)
SectionsEntries(v, secs) ==
  IF secs = <<>> THEN <<>>
  ELSE SectionEntries(v, secs[1]) \o SectionsEntries(v, Tail(secs))

\* to_markdown that starts with no header line when the title is empty
to_markdown_NoBareHeader(v, doc) ==
  Join(<<NL>>, (IF doc.title = <<>> THEN <<>> ELSE <<HeaderLine(doc.title)>>)
                  \o SectionsEntries(v, doc.sections))

\* to_markdown(structured) of the script  v
to_markdown(v, doc) ==
  Join(<<NL>>, <<HeaderLine(doc.title)>> \o SectionsEntries(v, doc.sections))

\* "\n\n---\n\n"
S_PageBreak == <<NL, NL>> \o S_Dashes \o <<NL, NL>>

(***************************************************************************)
(* Inputs.  Fragments are axis-aligned boxes of BoxW x BoxH half pixels    *)
(* whose top-left corner is (x, y); the four corners are listed the way    *)
(* EasyOCR lists them.                                                     *)
(***************************************************************************)
BoxW == 20

BoxH == 20

Frag(x, y, t) ==
  [box  |-> <<<<x, y>>, <<x + BoxW, y>>, <<x + BoxW, y + BoxH>>, <<x, y + BoxH>>>>,
   text |-> t,
   conf |-> 90]

T_blank == <<" ">>
T_ab == <<"a","b">>
T_cd == <<"c","d">>
T_abcdef == <<"a","b","c","d","e","f">>
T_Ali == <<"A","l","i">>
T_10 == <<"1","0">>
T_Name == <<"N","a","m","e">>
T_Age == <<"A","g","e">>
T_Title == <<"D","o","c","u","m","e","n","t"," ","T","i","t","l","e"," ","H","e","r","e">>
T_TitleDots == <<"D","o","c","u","m","e","n","t",".","T","i","t","l","e",".","H","e","r","e">>
T_Para == <<"J","u","s","t"," ","a"," ","p","a","r","a","g","r","a","p","h",".">>
T_ParaDots == <<"J","u","s","t",".","a",".","p","a","r","a","g","r","a","p","h",".">>

\* Free inputs: every sequence of at most MaxFrags fragments of a pool that
\* holds the threshold's boundary (tops 0, 0.5 and 24 px), two columns, a
\* short text and a text long enough for a title.
MaxFrags == 3

PoolXs == {0, 20}

PoolYs == {0, 1, 48}

PoolTexts == {T_ab, T_abcdef}

Pool == {Frag(x, y, t) : x \in PoolXs, y \in PoolYs, t \in PoolTexts}

FreeInputs == UNION {[1..n -> Pool] : n \in 0..MaxFrags}

\* Page inputs: at most MaxRows rows RowPitch half pixels apart, each row one
\* of RowKinds, its cells ColPitch half pixels apart; the fragments arrive in
\* reading order or in the reverse of it.
MaxRows == 4

RowPitch == 60

ColPitch == 30

RowKinds ==
  {<<T_ab>>, <<T_ab, T_cd>>, <<T_abcdef>>, <<T_Ali, T_10>>, <<T_blank, T_ab>>}

RowFrags(r, row) ==
  [c \in 1..Len(row) |-> Frag((c - 1) * ColPitch, (r - 1) * RowPitch, row[c])]

RECURSIVE PageFrags(_, _)
PageFrags(rows, n) ==
  IF n = 0 THEN <<>> ELSE PageFrags(rows, n - 1) \o RowFrags(n, rows[n])

Reverse(s) == [k \in 1..Len(s) |-> s[Len(s) + 1 - k]]

PageInputs ==
  LET layouts == UNION {[1..n -> RowKinds] : n \in 1..MaxRows}
  IN  {PageFrags(rows, Len(rows)) : rows \in layouts}
        \cup {Reverse(PageFrags(rows, Len(rows))) : rows \in layouts}

\* The two scenarios of the specification's section 8.
ScenarioTable == PageFrags(<<<<T_Title>>, <<T_Name, T_Age>>, <<T_Ali, T_10>>>>, 3)

ScenarioParagraph == PageFrags(<<<<T_Title>>, <<T_Para>>>>, 2)

\* Malformed OCR entries: a box without corner points, a corner with one
\* coordinate only, an entry of two items instead of three; each with a
\* blank or a non-blank text, before or after a well-formed fragment.
NoBox(t) == [box |-> <<>>, text |-> t, conf |-> 90]

BadCorner(t) ==
  [box |-> <<<<0, 0>>, <<BoxW>>, <<BoxW, BoxH>>, <<0, BoxH>>>>, text |-> t, conf |-> 90]

NoConf(t) ==
  [box |-> <<<<0, 0>>, <<BoxW, 0>>, <<BoxW, BoxH>>, <<0, BoxH>>>>, text |-> t]

MalformedInputs ==
  {<<NoBox(T_ab)>>,
   <<Frag(0, RowPitch, T_abcdef), NoBox(T_ab)>>,
   <<BadCorner(T_ab), Frag(0, RowPitch, T_abcdef)>>,
   <<NoConf(T_ab), Frag(0, RowPitch, T_abcdef)>>,
   <<NoBox(T_blank), Frag(0, RowPitch, T_abcdef)>>,
   <<BadCorner(T_blank), Frag(0, RowPitch, T_ab)>>}

\* Texts at the edge of "blank": empty, an underscore, a tab, a dot, a word
\* or a dot inside spaces.
T_empty == <<>>
T_underscore == <<"_">>
T_tab == <<"\t">>
T_dot == <<".">>
T_spaced_a == <<" ", "a", " ">>
T_spaced_dot == <<" ", ".", " ">>

EdgeTexts == {T_empty, T_blank, T_underscore, T_tab, T_dot, T_spaced_a, T_spaced_dot}

\* A chain: n fragments side by side, each one pixel less than the default
\* threshold below the one before it (tops in half pixels).
DriftStep == 2 * (DefaultYThresh - 1)

ChainFrags(n) == [k \in 1..n |-> Frag((k - 1) * BoxW, (k - 1) * DriftStep, T_ab)]

Perms(n) == {f \in [1..n -> 1..n] : \A a, b \in 1..n : f[a] = f[b] => a = b}

\* Fragments whose tops and whose left edges are pairwise distinct, in every
\* order of arrival: a chain (one line), a two-cell row above a long line,
\* and the same with the left edges decreasing down the page.
StairBases ==
  {ChainFrags(MaxFrags),
   <<Frag(0, 0, T_ab), Frag(BoxW, DriftStep, T_cd),
     Frag(2 * BoxW, 3 * DriftStep, T_abcdef)>>,
   <<Frag(2 * BoxW, 0, T_ab), Frag(BoxW, DriftStep, T_cd),
     Frag(0, 3 * DriftStep, T_abcdef)>>}

StairInputs ==
  UNION {{[k \in 1..Len(base) |-> base[f[k]]] : f \in Perms(Len(base))} :
           base \in StairBases}

EdgeInputs ==
  {<<Frag(0, 0, t)>> : t \in EdgeTexts}
    \cup {<<Frag(0, 0, t), Frag(ColPitch, 0, T_underscore)>> : t \in EdgeTexts}
    \cup {<<Frag(0, 0, T_abcdef), Frag(0, RowPitch, t), Frag(ColPitch, RowPitch, T_ab)>> :
            t \in EdgeTexts}

Inputs ==
  FreeInputs \cup PageInputs \cup {ScenarioTable, ScenarioParagraph}
    \cup MalformedInputs \cup EdgeInputs \cup StairInputs

(***************************************************************************)
(* State.                                                                  *)
(*   pc          where analyze_layout is: "convert", "sort", "group",      *)
(*               "classify", "done"                                        *)
(*   bi, li      loop positions of  for box in boxes  and  for line in     *)
(*               lines                                                     *)
(*   origin      history: origin[j] lists the numbers of the lines that    *)
(*               were put into structured.sections[j]                      *)
(*   title_line  history: number of the line that set the title, 0 if none *)
(*   pages, pg, full_structured, page_md, output_text, variant             *)
(*               the main script: the fragment lists of the pages, the     *)
(*               position of  for i, img in enumerate(images),  the list   *)
(*               of page documents, to_markdown of each of them, the       *)
(*               joined Markdown, and which script runs ("main_easy" or    *)
(*               "EXP")                                                    *)
(*   text_in, text_out                                                     *)
(*               argument and result of fix_common_ocr_errors              *)
(*   markdown_text, chapters                                               *)
(*               argument and result of split_markdown_into_chapters       *)
(***************************************************************************)
VARIABLES ocr_results, y_thresh, pc, blocks, lines, current_line, prev_y, bi,
          structured, title_set, li, origin, title_line,
          pages, pg, full_structured, page_md, output_text, variant,
          text_in, text_out, markdown_text, chapters,
          fs, ses, log,
          pdf_call, pdf_pc, images, total_pages, end, pdf_i, saved_images,
          static, pdf_err, pdf_ret,
          chapter_titles, chapter_bodies, selected_chapters, chosen, output_names,
          name_idx, sum_idx, calls, sel_pc

vars == <<ocr_results, y_thresh, pc, blocks, lines, current_line, prev_y, bi,
          structured, title_set, li, origin, title_line,
          pages, pg, full_structured, page_md, output_text, variant,
          text_in, text_out, markdown_text, chapters,
          fs, ses, log,
          pdf_call, pdf_pc, images, total_pages, end, pdf_i, saved_images,
          static, pdf_err, pdf_ret,
          chapter_titles, chapter_bodies, selected_chapters, chosen, output_names,
          name_idx, sum_idx, calls, sel_pc>>

pageVars == <<pages, pg, full_structured, page_md, output_text, variant>>

normVars == <<text_in, text_out>>

splitVars == <<markdown_text, chapters>>

\* everything outside one call of analyze_layout
\* summarize_chapter: the files of outputs/summaries, the calls in progress,
\* the calls that returned
sumVars == <<fs, ses, log>>

pdfVars == <<pdf_call, pdf_pc, images, total_pages, end, pdf_i, saved_images,
            static, pdf_err, pdf_ret>>

selVars == <<chapter_titles, chapter_bodies, selected_chapters, chosen, output_names,
            name_idx, sum_idx, calls, sel_pc>>

auxVars == <<sumVars, pdfVars, selVars>>

envVars == <<pageVars, normVars, splitVars, auxVars>>

\* no page loop running
NoPages ==
  /\ pages = <<>>
  /\ pg = 0
  /\ full_structured = <<>>
  /\ page_md = <<>>
  /\ output_text = <<>>
  /\ variant = "main_easy"

\* no call of fix_common_ocr_errors on its own
NoNorm ==
  /\ text_in = <<>>
  /\ text_out = <<>>

\* no call of split_markdown_into_chapters
NoSplit ==
  /\ markdown_text = <<>>
  /\ chapters = <<>>

\* no call of summarize_chapter
NoSum ==
  /\ fs = <<>>
  /\ ses = <<>>
  /\ log = <<>>

\* no PDF conversion running
NoPdf ==
  /\ pdf_call = <<>>
  /\ pdf_pc = "idle"
  /\ images = <<>>
  /\ total_pages = None
  /\ end = None
  /\ pdf_i = None
  /\ saved_images = <<>>
  /\ static = {}
  /\ pdf_err = "none"
  /\ pdf_ret = <<>>

\* no chapter selection running
NoSel ==
  /\ chapter_titles = <<>>
  /\ chapter_bodies = <<>>
  /\ selected_chapters = <<>>
  /\ chosen = {}
  /\ output_names = <<>>
  /\ name_idx = 0
  /\ sum_idx = 0
  /\ calls = <<>>
  /\ sel_pc = "idle"

NoAux == NoSum /\ NoPdf /\ NoSel

groupVars == <<lines, current_line, prev_y, bi>>

classVars == <<structured, title_set, li, origin, title_line>>

Locals ==
  /\ lines = <<>>
  /\ current_line = <<>>
  /\ prev_y = None
  /\ bi = 1
  /\ structured = [title |-> <<>>, sections |-> <<>>]
  /\ title_set = FALSE
  /\ li = 1
  /\ origin = <<>>
  /\ title_line = 0

Init ==
  /\ ocr_results \in Inputs
  /\ y_thresh = DefaultYThresh
  /\ pc = "convert"
  /\ blocks = <<>>
  /\ Locals
  /\ NoPages /\ NoNorm /\ NoSplit /\ NoAux

\* Step 1, an entry raises: analyze_layout has no try, the exception leaves
\* the function and its callers, and no document is returned
ConvertRaise ==
  /\ pc = "convert"
  /\ \E k \in 1..Len(ocr_results) : Raises(ocr_results[k])
  /\ pc' = "raised"
  /\ UNCHANGED <<ocr_results, y_thresh, blocks, groupVars, classVars, envVars>>

\* Step 1: for bbox, text, conf in ocr_results
ConvertBlocks ==
  /\ pc = "convert"
  /\ \A k \in 1..Len(ocr_results) : ~Raises(ocr_results[k])
  /\ blocks' = BlocksOf(ocr_results)
  /\ pc' = "sort"
  /\ UNCHANGED <<ocr_results, y_thresh, groupVars, classVars, envVars>>

\* SortBlocks that leaves the blocks in their order of arrival
SortBlocks_NoSort ==
  /\ pc = "sort"
  /\ blocks' = blocks
  /\ pc' = "group"
  /\ UNCHANGED <<ocr_results, y_thresh, groupVars, classVars, envVars>>

\* Step 2: blocks = sorted(blocks, key=lambda x: x["center_y"])
SortBlocks ==
  /\ pc = "sort"
  /\ blocks' = sorted(blocks, "center_y")
  /\ pc' = "group"
  /\ UNCHANGED <<ocr_results, y_thresh, groupVars, classVars, envVars>>

\* group_by_lines: one iteration of  for box in boxes
GroupStep ==
  /\ pc = "group"
  /\ bi <= Len(blocks)
  /\ LET box == blocks[bi]
         y == LineY(box)
     IN  /\ IF SameLine(prev_y, y, y_thresh)
            THEN /\ current_line' = Append(current_line, box)
                 /\ lines' = lines
            ELSE /\ lines' = Append(lines, current_line)
                 /\ current_line' = <<box>>
         /\ prev_y' = y
  /\ bi' = bi + 1
  /\ UNCHANGED <<ocr_results, y_thresh, pc, blocks, classVars, envVars>>

\* GroupFlush without the final  lines.append(current_line)
GroupFlush_NoFlush ==
  /\ pc = "group"
  /\ bi > Len(blocks)
  /\ lines' = lines
  /\ pc' = "classify"
  /\ UNCHANGED <<ocr_results, y_thresh, blocks, current_line, prev_y, bi, classVars, envVars>>

\* group_by_lines: after the loop, if current_line: lines.append(current_line)
GroupFlush ==
  /\ pc = "group"
  /\ bi > Len(blocks)
  /\ lines' = IF current_line # <<>> THEN Append(lines, current_line) ELSE lines
  /\ pc' = "classify"
  /\ UNCHANGED <<ocr_results, y_thresh, blocks, current_line, prev_y, bi, classVars, envVars>>

\* history of the section that received line li
OriginAfter(old, new) ==
  IF Len(new) > Len(old) THEN Append(origin, <<li>>)
  ELSE [j \in 1..Len(origin) |->
          IF new[j] # old[j] THEN Append(origin[j], li) ELSE origin[j]]

\* one iteration of  for line in lines
ClassifyLine ==
  /\ pc = "classify"
  /\ li <= Len(lines)
  /\ LET line == sorted(lines[li], "min_x")
         texts == TextsOf(line)
     IN  IF IsTitleLine(title_set, texts)
         THEN /\ structured' = [structured EXCEPT !.title = JoinSpace(texts)]
              /\ title_set' = TRUE
              /\ title_line' = li
              /\ origin' = origin
         ELSE /\ structured' = [structured EXCEPT
                                  !.sections = AddLine(structured.sections, line, texts)]
              /\ origin' = OriginAfter(structured.sections, structured'.sections)
              /\ UNCHANGED <<title_set, title_line>>
  /\ li' = li + 1
  /\ UNCHANGED <<ocr_results, y_thresh, pc, blocks, groupVars, envVars>>

\* return structured
Return ==
  /\ pc = "classify"
  /\ li > Len(lines)
  /\ pc' = "done"
  /\ UNCHANGED <<ocr_results, y_thresh, blocks, groupVars, classVars, envVars>>

Next ==
  \/ ConvertBlocks
  \/ ConvertRaise
  \/ SortBlocks
  \/ GroupStep
  \/ GroupFlush
  \/ ClassifyLine
  \/ Return

Spec == Init /\ [][Next]_vars

(***************************************************************************)
(* The main script: one call of analyze_layout per page, the documents     *)
(* collected in full_structured, then the Markdown branch of the output.   *)
(* An image upload is one page, a PDF upload one page per PDF page.        *)
(***************************************************************************)
MaxPages == 2

PagePool ==
  {<<>>,
   <<Frag(0, 0, T_blank), NoBox(T_empty)>>,
   PageFrags(<<<<T_abcdef>>>>, 1),
   PageFrags(<<<<T_ab>>, <<T_abcdef>>>>, 2),
   PageFrags(<<<<T_abcdef>>, <<T_abcdef>>>>, 2),
   PageFrags(<<<<T_ab, T_cd>>, <<T_cd, T_ab>>, <<T_ab, T_cd>>>>, 3),
   PageFrags(<<<<T_abcdef>>, <<T_ab, T_cd>>, <<T_ab, T_cd, T_ab>>>>, 3),
   PageFrags(<<<<T_ab, T_cd>>, <<T_ab>>, <<T_cd, T_ab>>>>, 3),
   PageFrags(<<<<T_ab, T_cd>>, <<T_Ali, T_10>>, <<T_cd, T_ab>>>>, 3),
   Reverse(PageFrags(<<<<T_abcdef>>, <<T_ab>>, <<T_cd>>>>, 3)),
   ScenarioTable,
   ScenarioParagraph,
   <<Frag(0, RowPitch, T_abcdef), NoBox(T_ab)>>,
   <<NoBox(T_blank), Frag(0, RowPitch, T_abcdef)>>}

Scripts == {"main_easy", "EXP"}

InitPages ==
  /\ pages \in UNION {[1..n -> PagePool] : n \in 1..MaxPages}
  /\ variant \in Scripts
  /\ pg = 1
  /\ full_structured = <<>>
  /\ page_md = <<>>
  /\ output_text = <<>>
  /\ ocr_results = <<>>
  /\ y_thresh = DefaultYThresh
  /\ pc = "page"
  /\ blocks = <<>>
  /\ Locals
  /\ NoNorm /\ NoSplit /\ NoAux

\* LoadPage that keeps title_set of the page before
LoadPage_KeepTitleSet ==
  /\ pc = "page"
  /\ pg <= Len(pages)
  /\ ocr_results' = pages[pg]
  /\ pc' = "convert"
  /\ blocks' = <<>>
  /\ lines' = <<>>
  /\ current_line' = <<>>
  /\ prev_y' = None
  /\ bi' = 1
  /\ structured' = [title |-> <<>>, sections |-> <<>>]
  /\ title_set' = title_set
  /\ li' = 1
  /\ origin' = <<>>
  /\ title_line' = 0
  /\ UNCHANGED <<y_thresh, envVars>>

\* structured, annotated_img = process_image(img, reader): the call enters
\* analyze_layout with the page's fragments and new local variables
LoadPage ==
  /\ pc = "page"
  /\ pg <= Len(pages)
  /\ ocr_results' = pages[pg]
  /\ pc' = "convert"
  /\ blocks' = <<>>
  /\ lines' = <<>>
  /\ current_line' = <<>>
  /\ prev_y' = None
  /\ bi' = 1
  /\ structured' = [title |-> <<>>, sections |-> <<>>]
  /\ title_set' = FALSE
  /\ li' = 1
  /\ origin' = <<>>
  /\ title_line' = 0
  /\ UNCHANGED <<y_thresh, envVars>>

\* AppendPage that keeps only the newest document
AppendPage_OnlyLast ==
  /\ pc = "done"
  /\ pg \in 1..Len(pages)
  /\ full_structured' = <<structured>>
  /\ pg' = pg + 1
  /\ pc' = "page"
  /\ UNCHANGED <<ocr_results, y_thresh, blocks, groupVars, classVars,
                 pages, page_md, output_text, variant, normVars, splitVars, auxVars>>

\* full_structured.append(structured), and the loop moves to the next page
AppendPage ==
  /\ pc = "done"
  /\ pg \in 1..Len(pages)
  /\ full_structured' = Append(full_structured, structured)
  /\ pg' = pg + 1
  /\ pc' = "page"
  /\ UNCHANGED <<ocr_results, y_thresh, blocks, groupVars, classVars,
                 pages, page_md, output_text, variant, normVars, splitVars, auxVars>>

\* output_text = "\n\n---\n\n".join(to_markdown(s) for s in full_structured)
Render ==
  /\ pc = "page"
  /\ pg > Len(pages)
  /\ page_md' = [i \in 1..Len(full_structured) |->
                   to_markdown(variant, full_structured[i])]
  /\ output_text' = Join(S_PageBreak, page_md')
  /\ pc' = "rendered"
  /\ UNCHANGED <<ocr_results, y_thresh, blocks, groupVars, classVars,
                 pages, pg, full_structured, variant, normVars, splitVars, auxVars>>

NextPages ==
  \/ LoadPage
  \/ ConvertBlocks
  \/ ConvertRaise
  \/ SortBlocks
  \/ GroupStep
  \/ GroupFlush
  \/ ClassifyLine
  \/ Return
  \/ AppendPage
  \/ Render

SpecPages == InitPages /\ [][NextPages]_vars

(***************************************************************************)
(* group_by_lines on its own: any list of blocks, sorted or not, and any   *)
(* threshold of Thresholds.                                                *)
(***************************************************************************)
Thresholds == {0, DefaultYThresh, DefaultYThresh + 1}

BlockPool == {BlockOf(f) : f \in {g \in Pool : Strip(g.text) # <<>>}}

ChainBlocks == {[k \in 1..n |-> BlockOf(ChainFrags(n)[k])] : n \in 2..MaxFrags}

InitGroup ==
  /\ ocr_results = <<>>
  /\ y_thresh \in Thresholds
  /\ pc = "group"
  /\ blocks \in UNION {[1..n -> BlockPool] : n \in 0..MaxFrags} \cup ChainBlocks
  /\ Locals
  /\ NoPages /\ NoNorm /\ NoSplit /\ NoAux

NextGroup == GroupStep \/ GroupFlush

SpecGroup == InitGroup /\ [][NextGroup]_vars

\* the concatenation of the sequences of a sequence
RECURSIVE Flatten(_)
Flatten(ss) == IF ss = <<>> THEN <<>> ELSE ss[1] \o Flatten(Tail(ss))

(***************************************************************************)
(* fix_common_ocr_errors on its own: the text is a concatenation of at     *)
(* most MaxTokens tokens, or the URL of the specification's section 8.     *)
(***************************************************************************)
MaxTokens == 3

WwwCombos ==
  {<<a, b, c>> : a \in {"w", "W"}, b \in {"w", "W"}, c \in {"w", "W"}}

T_com == <<"c","o","m">>
T_httpI == <<"h","t","t","p","I">>

NormTokens ==
  WwwCombos \cup {<<" ">>, <<"_">>, <<".">>, <<",">>, <<"@">>, T_ab, T_com, T_httpI}

ScenarioUrl ==
  <<"w","w","W"," ","e","x","a","m","p","l","e"," "," ","c","o","m">>

NormInputs ==
  {Flatten(ts) : ts \in UNION {[1..n -> NormTokens] : n \in 0..MaxTokens}}
    \cup {ScenarioUrl}

layoutVars == <<ocr_results, y_thresh, blocks, groupVars, classVars>>

InitNorm ==
  /\ text_in \in NormInputs
  /\ text_out = <<>>
  /\ pc = "norm"
  /\ ocr_results = <<>>
  /\ y_thresh = DefaultYThresh
  /\ blocks = <<>>
  /\ Locals
  /\ NoPages /\ NoSplit /\ NoAux

\* text = fix_common_ocr_errors(text)
FixText ==
  /\ pc = "norm"
  /\ text_out' = fix_common_ocr_errors(text_in)
  /\ pc' = "normed"
  /\ UNCHANGED <<layoutVars, pageVars, text_in, splitVars, auxVars>>

NextNorm == FixText

SpecNorm == InitNorm /\ [][NextNorm]_vars

(***************************************************************************)
(* split_markdown_into_chapters (src/utils/chapter_utils.py).              *)
(*   re.split(r'(?m)^#{1,2} (.+)$', markdown_text)  returns the text       *)
(* before the first match, then for every match its group and the text up  *)
(* to the next match.  A match starts at the beginning of a line with one  *)
(* or two # and a space, and its group runs over one or more characters    *)
(* up to the end of the line.                                              *)
(***************************************************************************)
\* the first position from k on that holds a line feed, Len(s) + 1 if none
RECURSIVE LineEnd(_, _)
LineEnd(s, k) ==
  IF k > Len(s) \/ s[k] = NL THEN k ELSE LineEnd(s, k + 1)

\* HashesAt for the pattern #{1,3} followed by a space
HashesAt_UpTo3(s, i) ==
  IF i + 1 <= Len(s) /\ s[i] = "#" /\ s[i + 1] = " " THEN i + 2
  ELSE IF i + 2 <= Len(s) /\ s[i] = "#" /\ s[i + 1] = "#" /\ s[i + 2] = " "
       THEN i + 3
  ELSE IF /\ i + 3 <= Len(s)
          /\ s[i] = "#" /\ s[i + 1] = "#" /\ s[i + 2] = "#" /\ s[i + 3] = " "
       THEN i + 4
  ELSE 0

\* #{1,2} followed by a space, at position i: the position after the space,
\* 0 if there is no match
HashesAt(s, i) ==
  IF i + 1 <= Len(s) /\ s[i] = "#" /\ s[i + 1] = " " THEN i + 2
  ELSE IF i + 2 <= Len(s) /\ s[i] = "#" /\ s[i + 1] = "#" /\ s[i + 2] = " "
       THEN i + 3
  ELSE 0

\* the pattern at position i: the start of its group, 0 if there is no match
HeadingAt(s, i) ==
  IF (i = 1 \/ s[i - 1] = NL) /\ HashesAt(s, i) # 0
     /\ HashesAt(s, i) <= Len(s) /\ s[HashesAt(s, i)] # NL
  THEN HashesAt(s, i) ELSE 0

\* re.split from position i on, p the start of the piece being collected
RECURSIVE ReSplitFrom(_, _, _)
ReSplitFrom(s, p, i) ==
  IF i > Len(s) THEN <<SubSeq(s, p, Len(s))>>
  ELSE IF HeadingAt(s, i) # 0
       THEN LET g == HeadingAt(s, i)
                e == LineEnd(s, g)
            IN  <<SubSeq(s, p, i - 1), SubSeq(s, g, e - 1)>> \o ReSplitFrom(s, e, e)
       ELSE ReSplitFrom(s, p, i + 1)

T_FullDocument == <<"F","u","l","l"," ","D","o","c","u","m","e","n","t">>

\* the list of (title, body) pairs the function returns
split_markdown_into_chapters(text) ==
  LET parts == ReSplitFrom(text, 1, 1)
  IN  IF Len(parts) > 1
      THEN [k \in 1..((Len(parts) - 1) \div 2) |->
              <<Strip(parts[2 * k]), Strip(parts[2 * k + 1])>>]
      ELSE <<<<T_FullDocument, text>>>>

\* Markdown texts: every text of at most MaxMdLen characters # space a and
\* line feed, and every text of at most MaxMdLines lines of MdLines.
MaxMdLen == 5

MaxMdLines == 4

MdChars == {"#", " ", "a", NL}

MdLines ==
  {<<"#", " ", "a">>, <<"#", "#", " ", "b">>, <<"#", "#", "#", " ", "c">>,
   <<"a", " ", "b">>, <<>>, <<"#", "a">>, <<"#", " ">>, <<" ", "#", " ", "a">>,
   <<"#", " ", " ", "a", " ">>}

MdInputs ==
  UNION {[1..n -> MdChars] : n \in 0..MaxMdLen}
    \cup {Join(<<NL>>, ls) : ls \in UNION {[1..n -> MdLines] : n \in 1..MaxMdLines}}

InitSplit ==
  /\ markdown_text \in MdInputs
  /\ chapters = <<>>
  /\ pc = "split"
  /\ ocr_results = <<>>
  /\ y_thresh = DefaultYThresh
  /\ blocks = <<>>
  /\ Locals
  /\ NoPages /\ NoNorm /\ NoAux

\* return list(zip(titles, bodies))
SplitChapters ==
  /\ pc = "split"
  /\ chapters' = split_markdown_into_chapters(markdown_text)
  /\ pc' = "chapters"
  /\ UNCHANGED <<layoutVars, pageVars, normVars, markdown_text, auxVars>>

NextSplit == SplitChapters

SpecSplit == InitSplit /\ [][NextSplit]_vars

(***************************************************************************)
(* summarize_chapter (src/utils/chapter_utils.py).  The files of the       *)
(* folder outputs/summaries are pairs <<path, content>>, the path without  *)
(* the folder.  A session is a caller that runs one call at a time; calls  *)
(* of different sessions interleave statement by statement.  The model     *)
(* answer, the operating system and langdetect succeed or raise as they    *)
(* choose.  The text of a summary is abstract: <<"summary", id>> is the    *)
(* text the model returned to call id.                                     *)
(***************************************************************************)
MaxCalls == 3

MaxCount == 5

SumSessions == {1, 2}

NoPath == <<>>

OldContent == <<"old", 0>>

EmptyFile == <<"empty", 0>>

\* "*No summary generated.*"
NoSummaryText == <<"placeholder", 0>>

\* f"⚠️ Error during summarization: {e}"
ErrorText == <<"error", 0>>

T_a == <<"a">>
T_a_1 == <<"a", "_", "1">>
T_a_slash == <<"a", "/", " ">>
T_slash == <<"/">>
T_summary == <<"s","u","m","m","a","r","y">>

\* "a/ " is sanitized to "a", "/" to "summary"; the second file of "a" has
\* the name of the first file of "a_1"
OutputNames == {T_a_slash, T_a_1, T_slash}

\* c.isalnum() or c in (" ", "_", "-")
IsSafeChar(c) == c \in WordChars \cup {" ", "-"}

\* "".join(c for c in output_filename if ...).rstrip(), "summary" if empty
Sanitize(name) ==
  LET kept == RStrip(SelectSeq(name, IsSafeChar))
  IN  IF kept = <<>> THEN T_summary ELSE kept

\* str(count) for the counts the model reaches
Digit(k) == <<"0","1","2","3","4","5","6","7","8","9">>[k + 1]

\* f"{safe_filename}.md"
FirstPath(safe) == safe \o <<".", "m", "d">>

\* f"{safe_filename}_{count}.md"
NumberedPath(safe, count) == safe \o <<"_", Digit(count)>> \o <<".", "m", "d">>

\* os.path.exists(output_path)
Exists(files, path) == \E f \in files : f[1] = path

\* the folder after the file at  path  got the content  c
WithFile(files, path, c) == {f \in files : f[1] # path} \cup {<<path, c>>}

ContentOf(files, path) == (CHOOSE f \in files : f[1] = path)[2]

PathsOf(files) == {f[1] : f \in files}

IdleSession ==
  [pc |-> "idle", id |-> 0, name |-> <<>>, lang |-> "", summary |-> EmptyFile,
   safe |-> <<>>, path |-> NoPath, count |-> 0, start |-> {}]

\* the calls started so far
Started == Len(log) + Cardinality({s \in SumSessions : ses[s].pc # "idle"})

InitSum ==
  /\ fs \in {{}, {<<FirstPath(T_a), OldContent>>}}
  /\ ses = [s \in SumSessions |-> IdleSession]
  /\ log = <<>>
  /\ pc = "sum"
  /\ ocr_results = <<>>
  /\ y_thresh = DefaultYThresh
  /\ blocks = <<>>
  /\ Locals
  /\ NoPages /\ NoNorm /\ NoSplit /\ NoPdf /\ NoSel

sumFrame == <<layoutVars, pc, pageVars, normVars, splitVars, pdfVars, selVars>>

\* what a call hands back: the pair it returns, or an exception
Outcome(s, kind, text, path) ==
  [id |-> ses[s].id, session |-> s, name |-> ses[s].name, kind |-> kind,
   text |-> text, path |-> path, start |-> ses[s].start]

\* Caught with the exception leaving summarize_chapter
Caught_Propagate(s) ==
  /\ log' = Append(log, Outcome(s, "raised", ErrorText, NoPath))
  /\ ses' = [ses EXCEPT ![s] = IdleSession]

\* except Exception as e: return f"⚠️ Error during summarization: {e}", None
Caught(s) ==
  /\ log' = Append(log, Outcome(s, "returned", ErrorText, NoPath))
  /\ ses' = [ses EXCEPT ![s] = IdleSession]

\* the caller calls summarize_chapter(markdown_text, output_filename, ...)
StartCall(s) ==
  /\ ses[s].pc = "idle"
  /\ Started < MaxCalls
  /\ \E name \in OutputNames :
       ses' = [ses EXCEPT ![s] = [IdleSession EXCEPT
                 !.pc = "detect", !.id = Started + 1, !.name = name,
                 !.start = PathsOf(fs)]]
  /\ UNCHANGED <<fs, log, sumFrame>>

\* lang = langdetect.detect(markdown_text), "ar" when it raises
DetectLang(s) ==
  /\ ses[s].pc = "detect"
  /\ \E ok \in BOOLEAN :
       ses' = [ses EXCEPT ![s].lang = IF ok THEN "en" ELSE "ar",
                          ![s].pc = "generate"]
  /\ UNCHANGED <<fs, log, sumFrame>>

\* the model call; an empty answer becomes "*No summary generated.*"
Generate(s) ==
  /\ ses[s].pc = "generate"
  /\ \E r \in {"text", "empty", "raise"} :
       IF r = "raise" THEN Caught(s)
       ELSE /\ ses' = [ses EXCEPT
                 ![s].summary = IF r = "text" THEN <<"summary", ses[s].id>>
                                ELSE NoSummaryText,
                 ![s].pc = "makedirs"]
            /\ log' = log
  /\ UNCHANGED <<fs, sumFrame>>

\* os.makedirs(output_folder, exist_ok=True)
MakeDirs(s) ==
  /\ ses[s].pc = "makedirs"
  /\ \E ok \in BOOLEAN :
       IF ok THEN ses' = [ses EXCEPT ![s].pc = "sanitize"] /\ log' = log
       ELSE Caught(s)
  /\ UNCHANGED <<fs, sumFrame>>

\* safe_filename, the first output_path, count = 1
SanitizeName(s) ==
  /\ ses[s].pc = "sanitize"
  /\ ses' = [ses EXCEPT ![s].safe = Sanitize(ses[s].name),
                        ![s].path = FirstPath(Sanitize(ses[s].name)),
                        ![s].count = 1,
                        ![s].pc = "exists"]
  /\ UNCHANGED <<fs, log, sumFrame>>

\* PathFree that takes the path without looking at the folder
PathFree_NoCheck(s) ==
  /\ ses[s].pc = "exists"
  /\ ses' = [ses EXCEPT ![s].pc = "open"]
  /\ UNCHANGED <<fs, log, sumFrame>>

\* while os.path.exists(output_path): one test that finds the path taken
PathTaken(s) ==
  /\ ses[s].pc = "exists"
  /\ Exists(fs, ses[s].path)
  /\ ses[s].count <= MaxCount
  /\ ses' = [ses EXCEPT ![s].path = NumberedPath(ses[s].safe, ses[s].count),
                        ![s].count = ses[s].count + 1]
  /\ UNCHANGED <<fs, log, sumFrame>>

\* while os.path.exists(output_path): the test that finds the path free
PathFree(s) ==
  /\ ses[s].pc = "exists"
  /\ ~Exists(fs, ses[s].path)
  /\ ses' = [ses EXCEPT ![s].pc = "open"]
  /\ UNCHANGED <<fs, log, sumFrame>>

\* with open(output_path, "w", encoding="utf-8") as f: the file is created
\* or truncated
OpenFile(s) ==
  /\ ses[s].pc = "open"
  /\ \E ok \in BOOLEAN :
       IF ok
       THEN /\ fs' = WithFile(fs, ses[s].path, EmptyFile)
            /\ ses' = [ses EXCEPT ![s].pc = "write"]
            /\ log' = log
       ELSE Caught(s) /\ fs' = fs
  /\ UNCHANGED sumFrame

\* f.write(summary_text), and the file is closed
WriteFile(s) ==
  /\ ses[s].pc = "write"
  /\ \E ok \in BOOLEAN :
       IF ok
       THEN /\ fs' = WithFile(fs, ses[s].path, ses[s].summary)
            /\ ses' = [ses EXCEPT ![s].pc = "return"]
            /\ log' = log
       ELSE Caught(s) /\ fs' = fs
  /\ UNCHANGED sumFrame

\* return summary_text, output_path
ReturnSummary(s) ==
  /\ ses[s].pc = "return"
  /\ log' = Append(log, Outcome(s, "returned", ses[s].summary, ses[s].path))
  /\ ses' = [ses EXCEPT ![s] = IdleSession]
  /\ UNCHANGED <<fs, sumFrame>>

SumStep(s) ==
  \/ StartCall(s)
  \/ DetectLang(s)
  \/ Generate(s)
  \/ MakeDirs(s)
  \/ SanitizeName(s)
  \/ PathTaken(s)
  \/ PathFree(s)
  \/ OpenFile(s)
  \/ WriteFile(s)
  \/ ReturnSummary(s)

\* one caller: the calls follow one another
NextSum == SumStep(1)

SpecSum == InitSum /\ [][NextSum]_vars

\* session s has not called yet
FirstCall(s) == \A k \in 1..Len(log) : log[k].session # s

\* two sessions, one call each: their calls interleave
NextSumConc ==
  \E s \in SumSessions :
    \/ StartCall(s) /\ FirstCall(s)
    \/ DetectLang(s)
    \/ Generate(s)
    \/ MakeDirs(s)
    \/ SanitizeName(s)
    \/ PathTaken(s)
    \/ PathFree(s)
    \/ OpenFile(s)
    \/ WriteFile(s)
    \/ ReturnSummary(s)

SpecSumConc == InitSum /\ [][NextSumConc]_vars

(***************************************************************************)
(* convert_pdf_to_images of utils/pdf_utils.py: the pages start..end of a  *)
(* PDF saved as images.  A page image is the number of the page it shows;  *)
(* a saved path is <<"page", n, u>> for f"page_{n}_{uuid}.png" and static  *)
(* holds the <<path, image>> pairs of the files in the static folder.      *)
(***************************************************************************)
MaxPdfPages == 3

\* the page numbers a caller can pass
PdfStarts == 0..(MaxPdfPages + 1)

PdfEnds == (0 - 1)..(MaxPdfPages + 1)

PyMin(a, b) == IF a <= b THEN a ELSE b

\* position of list[i] for a Python index i, which counts from the end of
\* the list when it is negative; outside 1..Len(list) is an IndexError
PyIndex(list, i) == IF i >= 0 THEN i + 1 ELSE Len(list) + i + 1

\* f"page_{i+1}_{uuid.uuid4().hex}.png" in the static folder; the fresh uuid
\* is the number of uuids drawn so far
ImagePath(i, u) == <<"page", i + 1, u>>

InitPdf ==
  /\ pdf_call \in [start : PdfStarts, end : PdfEnds]
  /\ pdf_pc = "convert"
  /\ images = <<>>
  /\ total_pages = None
  /\ end = pdf_call.end
  /\ pdf_i = None
  /\ saved_images = <<>>
  /\ static = {}
  /\ pdf_err = "none"
  /\ pdf_ret = <<>>
  /\ pc = "pdf"
  /\ ocr_results = <<>>
  /\ y_thresh = DefaultYThresh
  /\ blocks = <<>>
  /\ Locals
  /\ NoPages /\ NoNorm /\ NoSplit /\ NoSum /\ NoSel

pdfFrame == <<layoutVars, pc, pageVars, normVars, splitVars, sumVars, selVars>>

\* convert_from_path raised: the error is shown and [] returned
ConvertFails ==
  /\ pdf_pc = "convert"
  /\ pdf_pc' = "returned"
  /\ pdf_ret' = <<>>
  /\ UNCHANGED <<pdf_call, images, total_pages, end, pdf_i, saved_images,
                 static, pdf_err, pdfFrame>>

\* the mutant: the end of the range is not clamped to the page count
ConvertPdf_NoClamp ==
  /\ pdf_pc = "convert"
  /\ \E n \in 0..MaxPdfPages :
       /\ images' = [k \in 1..n |-> k]
       /\ total_pages' = n
  /\ pdf_i' = pdf_call.start - 1
  /\ pdf_pc' = "loop"
  /\ UNCHANGED <<pdf_call, end, saved_images, static, pdf_err, pdf_ret,
                 pdfFrame>>

\* convert_from_path gave the page images; end is clamped and the loop over
\* range(start - 1, end) begins
ConvertPdf ==
  /\ pdf_pc = "convert"
  /\ \E n \in 0..MaxPdfPages :
       /\ images' = [k \in 1..n |-> k]
       /\ total_pages' = n
       /\ end' = PyMin(end, n)
  /\ pdf_i' = pdf_call.start - 1
  /\ pdf_pc' = "loop"
  /\ UNCHANGED <<pdf_call, saved_images, static, pdf_err, pdf_ret, pdfFrame>>

\* images[i] with i outside the list
IndexFails ==
  /\ pdf_pc = "loop"
  /\ pdf_i < end
  /\ PyIndex(images, pdf_i) \notin 1..Len(images)
  /\ pdf_pc' = "raised"
  /\ pdf_err' = "IndexError"
  /\ UNCHANGED <<pdf_call, images, total_pages, end, pdf_i, saved_images,
                 static, pdf_ret, pdfFrame>>

\* images[i].save raised; nothing in the function catches it
SaveFails ==
  /\ pdf_pc = "loop"
  /\ pdf_i < end
  /\ PyIndex(images, pdf_i) \in 1..Len(images)
  /\ pdf_pc' = "raised"
  /\ pdf_err' = "OSError"
  /\ UNCHANGED <<pdf_call, images, total_pages, end, pdf_i, saved_images,
                 static, pdf_ret, pdfFrame>>

\* one turn of the loop: the image is saved and its path appended
SavePage ==
  /\ pdf_pc = "loop"
  /\ pdf_i < end
  /\ PyIndex(images, pdf_i) \in 1..Len(images)
  /\ LET image_path == ImagePath(pdf_i, Len(saved_images) + 1)
     IN /\ static' = static \cup {<<image_path, images[PyIndex(images, pdf_i)]>>}
        /\ saved_images' = Append(saved_images, image_path)
  /\ pdf_i' = pdf_i + 1
  /\ UNCHANGED <<pdf_call, pdf_pc, images, total_pages, end, pdf_err, pdf_ret,
                 pdfFrame>>

ReturnImages ==
  /\ pdf_pc = "loop"
  /\ pdf_i >= end
  /\ pdf_pc' = "returned"
  /\ pdf_ret' = saved_images
  /\ UNCHANGED <<pdf_call, images, total_pages, end, pdf_i, saved_images,
                 static, pdf_err, pdfFrame>>

NextPdf ==
  \/ ConvertFails
  \/ ConvertPdf
  \/ IndexFails
  \/ SaveFails
  \/ SavePage
  \/ ReturnImages

SpecPdf == InitPdf /\ [][NextPdf]_vars

(***************************************************************************)
(* The "By Chapters" mode of chapter_summarizer.py: the user selects       *)
(* chapters, a text input per selected chapter holds its output file name, *)
(* and the button runs summarize_chapter over the chapters.  idx counts    *)
(* from 0 as enumerate does; calls lists the calls of summarize_chapter;   *)
(* chosen is the set of places (from 1) of the chapters the user selected. *)
(***************************************************************************)
MaxChapters == 3

T_a_b == <<"a", " ", "b">>

T_my == <<"m", "y">>

\* titles the splitter can return; "# " followed by blanks gives ""
ChapterTitles == {T_a, T_a_b, <<>>}

\* chapter bodies: empty, or some text
ChapterBodies == {<<>>, T_ab}

\* str.replace(old, new) for a single character old
Replace(s, old, new) == [k \in 1..Len(s) |-> IF s[k] = old THEN new ELSE s[k]]

\* f"chapter_{idx+1}"
FallbackName(idx) == <<"c","h","a","p","t","e","r","_">> \o Digit(idx + 1)

\* chapter.replace(" ", "_").replace("/", "_") or f"chapter_{idx+1}"
DefaultName(chapter, idx) ==
  LET name == Replace(Replace(chapter, " ", "_"), "/", "_")
  IN  IF name # <<>> THEN name ELSE FallbackName(idx)

\* the elements of s at the places of K, in the order of s
RECURSIVE Pick(_, _, _)
Pick(s, K, k) ==
  IF k > Len(s) THEN <<>>
  ELSE (IF k \in K THEN <<s[k]>> ELSE <<>>) \o Pick(s, K, k + 1)

\* chapter in selected_chapters
In(x, s) == \E k \in 1..Len(s) : s[k] = x

\* output_names.get(key, default)
Get(dict, key, default) == IF key \in DOMAIN dict THEN dict[key] ELSE default

InitChapters ==
  /\ \E n \in 1..MaxChapters :
       /\ chapter_titles \in [1..n -> ChapterTitles]
       /\ chapter_bodies \in [1..n -> ChapterBodies]
  /\ selected_chapters = <<>>
  /\ chosen = {}
  /\ output_names = <<>>
  /\ name_idx = 0
  /\ sum_idx = 0
  /\ calls = <<>>
  /\ sel_pc = "select"
  /\ pc = "chapters"
  /\ ocr_results = <<>>
  /\ y_thresh = DefaultYThresh
  /\ blocks = <<>>
  /\ Locals
  /\ NoPages /\ NoNorm /\ NoSplit /\ NoSum /\ NoPdf

selFrame == <<layoutVars, pc, pageVars, normVars, splitVars, sumVars, pdfVars>>

\* st.multiselect with every chapter selected by default: the user removes
\* chapters from the selection, or none.  A single chapter is selected
\* without a widget.  Chapters of equal title are left as the default has
\* them.
SelectChapters ==
  /\ sel_pc = "select"
  /\ \E K \in SUBSET (1..Len(chapter_titles)) :
       /\ (Len(chapter_titles) > 1
             /\ \A a, b \in 1..Len(chapter_titles) :
                  a # b => chapter_titles[a] # chapter_titles[b])
            \/ K = 1..Len(chapter_titles)
       /\ chosen' = K
       /\ selected_chapters' = Pick(chapter_titles, K, 1)
  /\ name_idx' = 0
  /\ sel_pc' = "names"
  /\ UNCHANGED <<chapter_titles, chapter_bodies, output_names, sum_idx, calls,
                 selFrame>>

\* one turn of  for idx, chapter in enumerate(selected_chapters): the text
\* input holds its default value or a name the user typed
EnterName ==
  /\ sel_pc = "names"
  /\ name_idx < Len(selected_chapters)
  /\ LET chapter == selected_chapters[name_idx + 1]
         default_name == DefaultName(chapter, name_idx)
     IN  \E value \in {default_name, T_my} :
           output_names' = (<<chapter, name_idx>> :> value) @@ output_names
  /\ name_idx' = name_idx + 1
  /\ UNCHANGED <<chapter_titles, chapter_bodies, selected_chapters, chosen, sum_idx,
                 calls, sel_pc, selFrame>>

\* st.button("Summarize Selected Chapters") is pressed
PressButton ==
  /\ sel_pc = "names"
  /\ name_idx = Len(selected_chapters)
  /\ sum_idx' = 0
  /\ sel_pc' = "loop"
  /\ UNCHANGED <<chapter_titles, chapter_bodies, selected_chapters, chosen,
                 output_names, name_idx, calls, selFrame>>

\* one turn of  for idx, chapter in enumerate(chapter_titles)
SummarizeNext ==
  /\ sel_pc = "loop"
  /\ sum_idx < Len(chapter_titles)
  /\ LET chapter == chapter_titles[sum_idx + 1]
         chapter_body == chapter_bodies[sum_idx + 1]
         output_name == Get(output_names, <<chapter, sum_idx>>, FallbackName(sum_idx))
     IN  calls' = IF In(chapter, selected_chapters) /\ Strip(chapter_body) # <<>>
                  THEN Append(calls, [idx |-> sum_idx, body |-> chapter_body,
                                      name |-> output_name])
                  ELSE calls
  /\ sum_idx' = sum_idx + 1
  /\ UNCHANGED <<chapter_titles, chapter_bodies, selected_chapters, chosen,
                 output_names, name_idx, sel_pc, selFrame>>

LoopDone ==
  /\ sel_pc = "loop"
  /\ sum_idx = Len(chapter_titles)
  /\ sel_pc' = "done"
  /\ UNCHANGED <<chapter_titles, chapter_bodies, selected_chapters, chosen,
                 output_names, name_idx, sum_idx, calls, selFrame>>

NextChapters ==
  \/ SelectChapters
  \/ EnterName
  \/ PressButton
  \/ SummarizeNext
  \/ LoopDone

SpecChapters == InitChapters /\ [][NextChapters]_vars

(***************************************************************************)
(* Helpers of the properties.                                              *)
(***************************************************************************)
Grouped == pc \in {"classify", "done"}

\* number of the line that holds the k-th block, once grouping is over
RECURSIVE LineOfFrom(_, _)
LineOfFrom(k, j) ==
  IF j >= Len(lines) \/ k <= Len(lines[j]) THEN j
  ELSE LineOfFrom(k - Len(lines[j]), j + 1)

LineOf(k) == LineOfFrom(k, 1)

(***************************************************************************)
(* C1.  For every list of blocks and every threshold, every line           *)
(* group_by_lines returns is non-empty and the lines, concatenated in      *)
(* order, are exactly the input sequence (during the scan: the lines       *)
(* closed so far followed by current_line are the blocks scanned so far);  *)
(* an empty input gives no line.                                           *)
(***************************************************************************)
C1_LinesPartitionBlocks ==
  /\ \A k \in 1..Len(lines) : lines[k] # <<>>
  /\ pc = "group" =>
       Flatten(lines) \o current_line = SubSeq(blocks, 1, bi - 1)
  /\ Grouped =>
       /\ Flatten(lines) = blocks
       /\ (blocks = <<>> => lines = <<>>)

C1_Witness ==
  /\ Grouped
  /\ Len(blocks) = 3
  /\ Len(lines) = 2
  /\ Len(lines[2]) = 2
  /\ blocks[1].center_y > blocks[3].center_y

(***************************************************************************)
(* C2.  Two consecutive blocks are put in the same line if and only if     *)
(* their center_y, the key the blocks were sorted by, differ by strictly   *)
(* less than y_thresh.                                                     *)
(***************************************************************************)
C2_SameLineIffCenterYClose ==
  Grouped =>
    \A k \in 1..(Len(blocks) - 1) :
      (LineOf(k) = LineOf(k + 1))
        <=> (Abs(blocks[k + 1].center_y - blocks[k].center_y) < Quarter * y_thresh)

\* the texts the classifier extracts from line k
LineTexts(k) == TextsOf(sorted(lines[k], "min_x"))

\* one iteration of the classification loop is being taken
ClassifyStep == pc = "classify" /\ li' = li + 1

Sections == structured.sections

IsTable(sec) == "table" \in DOMAIN sec

IsParagraph(sec) == "paragraph" \in DOMAIN sec

Done == pc = "done"

SetMin(S) == CHOOSE m \in S : \A n \in S : m <= n

\* numbers of the lines that were put into some section
Placed ==
  UNION {{origin[j][r] : r \in 1..Len(origin[j])} : j \in 1..Len(origin)}

\* origin describes sections: one line number per paragraph and per table row
OriginShape ==
  /\ Len(origin) = Len(Sections)
  /\ \A j \in 1..Len(Sections) :
       Len(origin[j]) = IF IsTable(Sections[j]) THEN Len(Sections[j].table) ELSE 1

(***************************************************************************)
(* C3.  Once title_set is true no later line changes the title: the title  *)
(* is assigned by at most one line of the pass.                            *)
(***************************************************************************)
C3_TitleSetAtMostOnce ==
  [][title_set =>
       /\ structured'.title = structured.title
       /\ title_set'
       /\ title_line' = title_line]_vars

\* a long two-block line has been processed after the title was set
C3_Witness ==
  /\ title_set
  /\ li > title_line + 1
  /\ Len(lines[li - 1]) = 2
  /\ Len(JoinSpace(LineTexts(li - 1))) > 5
  /\ structured.title # JoinSpace(LineTexts(li - 1))

C5_NoAdjacentTables ==
  \A j \in 1..(Len(Sections) - 1) :
    ~(IsTable(Sections[j]) /\ IsTable(Sections[j + 1]))

\* two consecutive multi-block lines went into one table section
C5_Witness ==
  /\ Done
  /\ \E j \in 1..Len(Sections) :
       IsTable(Sections[j]) /\ Len(Sections[j].table) >= 2

(***************************************************************************)
(* C6.  The rows of one table section come from lines that are             *)
(* consecutive in reading order: a table section is never extended after   *)
(* a paragraph line or the title line.                                     *)
(***************************************************************************)
C6_TableRowsFromConsecutiveLines ==
  \A j \in 1..Len(origin) : \A r \in 1..(Len(origin[j]) - 1) :
    origin[j][r + 1] = origin[j][r] + 1

(***************************************************************************)
(* C7.  A line of 2 or more blocks that is not taken as the title becomes  *)
(* exactly one table row holding its texts: the last row of the last       *)
(* section if that is a table, else the only row of a new last section;    *)
(* nothing else changes.  The title line, [Name, Age], [Ali, 10] give the  *)
(* single section [[Name, Age], [Ali, 10]].                                *)
(***************************************************************************)
C7_MultiBlockLineIsOneRow ==
  /\ [][(ClassifyStep /\ title_set' = title_set /\ Len(lines[li]) >= 2) =>
          LET n == Len(Sections)
          IN  IF n > 0 /\ IsTable(Sections[n])
              THEN /\ Len(Sections') = n
                   /\ SubSeq(Sections', 1, n - 1) = SubSeq(Sections, 1, n - 1)
                   /\ IsTable(Sections'[n])
                   /\ Sections'[n].table = Sections[n].table \o <<LineTexts(li)>>
              ELSE /\ Len(Sections') = n + 1
                   /\ SubSeq(Sections', 1, n) = Sections
                   /\ Sections'[n + 1] = [table |-> <<LineTexts(li)>>]]_vars
  /\ []((Done /\ ocr_results = ScenarioTable) =>
          Sections = <<[table |-> <<<<T_Name, T_Age>>, <<T_Ali, T_10>>>>]>>)

C7_Witness ==
  /\ Done
  /\ ocr_results = ScenarioTable
  /\ title_line = 1
  /\ Len(Sections) = 1
  /\ Len(Sections[1].table) = 2

LeftToRightTexts(k) ==
  LET line == lines[k]
      n == Len(line)
      ok(f) == \A a \in 1..(n - 1) : line[f[a]].bbox[1] <= line[f[a + 1]].bbox[1]
  IN  {[a \in 1..n |-> line[f[a]].text] : f \in {g \in Perms(n) : ok(g)}}

C9_TextsLeftToRight ==
  Grouped =>
    /\ OriginShape
    /\ \A j \in 1..Len(origin) : \A r \in 1..Len(origin[j]) :
         IF IsTable(Sections[j])
         THEN Sections[j].table[r] \in LeftToRightTexts(origin[j][r])
         ELSE <<Sections[j].paragraph>> \in LeftToRightTexts(origin[j][r])
    /\ title_line # 0 =>
         structured.title \in {JoinSpace(t) : t \in LeftToRightTexts(title_line)}

\* a table row and a two-block title both came from lines whose blocks the
\* grouper returned right to left
C9_Witness ==
  /\ Done
  /\ title_line # 0
  /\ Len(lines[title_line]) = 2
  /\ lines[title_line][1].bbox[1] > lines[title_line][2].bbox[1]
  /\ \E j \in 1..Len(origin) :
       /\ IsTable(Sections[j])
       /\ lines[origin[j][1]][1].bbox[1] > lines[origin[j][1]][2].bbox[1]

(***************************************************************************)
(* C10.  The blocks handed to group_by_lines are the blocks of the OCR     *)
(* output in non-decreasing center_y, blocks of equal center_y in the      *)
(* order they had in the OCR output; hence the last block of a line is     *)
(* never below the first block of the next line.                           *)
(***************************************************************************)
RECURSIVE WithCenterY(_, _)
WithCenterY(s, c) ==
  IF s = <<>> THEN <<>>
  ELSE IF s[1].center_y = c THEN <<s[1]>> \o WithCenterY(Tail(s), c)
  ELSE WithCenterY(Tail(s), c)

Rendered == pc = "rendered"

(***************************************************************************)
(* C11: two runs of analyze_layout on the same fragment list, with the     *)
(* same threshold, produce identical documents; nothing in the result      *)
(* depends on state left by an earlier call.  The runs are the calls for   *)
(* two pages of one upload that hold the same fragments.                   *)
(***************************************************************************)
C11_SameFragmentsSameDocument ==
  \A i, j \in 1..Len(full_structured) :
    pages[i] = pages[j] => full_structured[i] = full_structured[j]

\* two calls on the same fragments have returned, and the first one set the
\* title flag
C11_Witness ==
  /\ Len(full_structured) = 2
  /\ pages[1] = pages[2]
  /\ full_structured[1].title # <<>>
  /\ full_structured[1].sections # <<>>

\* the OCR output is a list of triples and no fragment has text left after
\* stripping
NoText(results) ==
  \A k \in 1..Len(results) :
    IsTriple(results[k]) /\ Strip(results[k].text) = <<>>

EmptyDocument == [title |-> <<>>, sections |-> <<>>]

(***************************************************************************)
(* C12: when the OCR output has no fragment with non-empty stripped text   *)
(* (an empty OCR output included), analyze_layout returns title "" and     *)
(* sections [], and to_markdown of that document is the single line "# ".  *)
(***************************************************************************)
C12_BlankPageEmptyDocument ==
  /\ NoText(ocr_results) => pc # "raised"
  /\ (pc = "done" /\ NoText(ocr_results)) =>
       /\ structured = EmptyDocument
       /\ blocks = <<>>
       /\ lines = <<>>
  /\ Rendered =>
       \A i \in 1..Len(pages) :
         NoText(pages[i]) =>
           /\ full_structured[i] = EmptyDocument
           /\ page_md[i] = <<"#", " ">>

\* an upload with a page of blank fragments and a page without fragments
\* has been rendered
C12_Witness ==
  /\ Rendered
  /\ \E i, j \in 1..Len(pages) :
       /\ pages[i] = <<>>
       /\ pages[j] # <<>>
       /\ NoText(pages[j])

\* str.split("\n") of Python: the lines of a text
RECURSIVE SplitLinesFrom(_, _, _)
SplitLinesFrom(s, k, cur) ==
  IF k > Len(s) THEN <<cur>>
  ELSE IF s[k] = NL THEN <<cur>> \o SplitLinesFrom(s, k + 1, <<>>)
  ELSE SplitLinesFrom(s, k + 1, Append(cur, s[k]))

SplitLines(s) == SplitLinesFrom(s, 1, <<>>)

\* the lines the specification gives one section: a table as header row,
\* separator row and every further row; a paragraph between two empty lines
ClaimedSectionLines(sec) ==
  IF IsTable(sec)
  THEN <<PipeRow(sec.table[1]), SepRow(sec.table[1])>>
         \o [r \in 1..(Len(sec.table) - 1) |-> PipeRow(sec.table[r + 1])]
  ELSE <<<<>>, sec.paragraph, <<>>>>

RECURSIVE ClaimedSectionsLines(_)
ClaimedSectionsLines(secs) ==
  IF secs = <<>> THEN <<>>
  ELSE ClaimedSectionLines(secs[1]) \o ClaimedSectionsLines(Tail(secs))

(***************************************************************************)
(* C13: to_markdown renders every table section as the first row,          *)
(* pipe-delimited, then one separator row with one --- per cell of the     *)
(* first row, then every further row of the section in order,              *)
(* pipe-delimited with exactly its own cells.                              *)
(***************************************************************************)
C13_TableRendersEveryRow ==
  Rendered =>
    \A i \in 1..Len(full_structured) :
      SplitLines(page_md[i]) =
        <<HeaderLine(full_structured[i].title)>>
          \o ClaimedSectionsLines(full_structured[i].sections)

\* the lines  ls  are renderings of the sections  secs  one after the other:
\* a paragraph is an empty line, its text, an empty line; a table is its
\* first row followed by any number of further lines that start with a pipe
RECURSIVE RendersInOrder(_, _)
RendersInOrder(ls, secs) ==
  IF secs = <<>> THEN ls = <<>>
  ELSE IF IsParagraph(secs[1])
       THEN /\ Len(ls) >= 3
            /\ SubSeq(ls, 1, 3) = <<<<>>, secs[1].paragraph, <<>>>>
            /\ RendersInOrder(SubSeq(ls, 4, Len(ls)), Tail(secs))
       ELSE /\ Len(ls) >= 1
            /\ ls[1] = PipeRow(secs[1].table[1])
            /\ \E n \in 1..Len(ls) :
                 /\ \A k \in 1..n : ls[k] # <<>> /\ ls[k][1] = "|"
                 /\ RendersInOrder(SubSeq(ls, n + 1, Len(ls)), Tail(secs))

(***************************************************************************)
(* C14: the output of to_markdown starts with the line "# " followed by    *)
(* the title (a bare "# " when the title is empty) and then renders the    *)
(* sections in document order, each paragraph section as its text with an  *)
(* empty line before it and an empty line after it.                        *)
(***************************************************************************)
C14_HeaderThenSectionsInOrder ==
  Rendered =>
    \A i \in 1..Len(full_structured) :
      \A ls \in {SplitLines(page_md[i])} :
        /\ ls[1] = <<"#", " ">> \o full_structured[i].title
        /\ RendersInOrder(Tail(ls), full_structured[i].sections)

\* rendered: a document without title whose paragraph stands between two
\* tables, and a document with a title and a paragraph
C14_Witness ==
  /\ Rendered
  /\ \E i, j \in 1..Len(full_structured) :
       /\ full_structured[i].title = <<>>
       /\ Len(full_structured[i].sections) = 3
       /\ IsParagraph(full_structured[i].sections[2])
       /\ full_structured[j].title # <<>>
       /\ Len(full_structured[j].sections) = 1
       /\ IsParagraph(full_structured[j].sections[1])

\* a (box, text, confidence) triple whose box has corner points, each of
\* them a pair
WellFormed(frag) ==
  /\ IsTriple(frag)
  /\ frag.box # <<>>
  /\ \A c \in 1..Len(frag.box) : Len(frag.box[c]) = 2

\* the well-formed fragments of an OCR output, in its order
RECURSIVE WellFormedOf(_)
WellFormedOf(results) ==
  IF results = <<>> THEN <<>>
  ELSE IF WellFormed(results[1])
       THEN <<results[1]>> \o WellFormedOf(Tail(results))
       ELSE WellFormedOf(Tail(results))

(***************************************************************************)
(* C15: a malformed fragment (a box with no corner points, a corner that   *)
(* is not a numeric pair, an entry that is not a triple) never aborts      *)
(* analyze_layout for the page; the remaining well-formed fragments are    *)
(* still grouped and classified into the returned document.                *)
(***************************************************************************)
C15_MalformedFragmentNeverAborts ==
  /\ pc # "raised"
  /\ pc = "sort" => blocks = BlocksOf(WellFormedOf(ocr_results))

(***************************************************************************)
(* C16: pages are processed with fresh classifier state: the document of   *)
(* page i is exactly analyze_layout of page i's fragments, whatever the    *)
(* other pages hold, and the multi-page result holds one document per page *)
(* in page order.                                                          *)
(***************************************************************************)
C16_OneFreshDocumentPerPage ==
  /\ pc = "page" =>
       /\ Len(full_structured) = pg - 1
       /\ \A i \in 1..Len(full_structured) :
            full_structured[i] = analyze_layout(pages[i])
  /\ pc \in {"convert", "sort", "group", "classify", "done"} =>
       Len(full_structured) = pg - 1
  /\ (pc = "convert" /\ pg > 0) =>
       /\ ocr_results = pages[pg]
       /\ blocks = <<>>
       /\ Locals
  /\ Rendered =>
       /\ Len(full_structured) = Len(pages)
       /\ Len(page_md) = Len(pages)

\* the loop has finished two pages with different fragments and both got a
\* title of their own
C16_Witness ==
  /\ pc = "page"
  /\ Len(full_structured) = 2
  /\ pages[1] # pages[2]
  /\ full_structured[1].title # <<>>
  /\ full_structured[2].title # <<>>
  /\ full_structured[1] # full_structured[2]

(***************************************************************************)
(* Claims about step 1 of analyze_layout and the normaliser (Spec).        *)
(***************************************************************************)
\* the fragments of an OCR output whose text is non-empty after stripping
RECURSIVE NonBlankOf(_)
NonBlankOf(results) ==
  IF results = <<>> THEN <<>>
  ELSE IF Strip(results[1].text) # <<>>
       THEN <<results[1]>> \o NonBlankOf(Tail(results))
       ELSE NonBlankOf(Tail(results))

\* every text of a section is a non-empty string
TextsNonEmpty(sec) ==
  IF IsTable(sec)
  THEN \A r \in 1..Len(sec.table) :
         /\ sec.table[r] # <<>>
         /\ \A c \in 1..Len(sec.table[r]) : sec.table[r][c] # <<>>
  ELSE sec.paragraph # <<>>

(***************************************************************************)
(* C17: a fragment yields a text block if and only if its text is          *)
(* non-empty after stripping (one block per such fragment, none for the    *)
(* others), and every text stored in the document is a non-empty string;   *)
(* every line reaching the classifier has at least one text.               *)
(***************************************************************************)
C17_BlockIffNonBlankText ==
  /\ pc = "sort" =>
       \A NB \in {NonBlankOf(ocr_results)} :
         /\ Len(blocks) = Len(NB)
         /\ \A k \in 1..Len(NB) :
              /\ blocks[k].conf = NB[k].conf
              /\ blocks[k].center_x = NB[k].box[1][1] + NB[k].box[2][1]
              /\ blocks[k].center_y = NB[k].box[1][2] + NB[k].box[3][2]
  /\ \A k \in 1..Len(blocks) : blocks[k].text # <<>>
  /\ \A k \in 1..Len(lines) :
       /\ lines[k] # <<>>
       /\ TextsOf(lines[k])[1] # <<>>
  /\ title_set => structured.title # <<>>
  /\ \A j \in 1..Len(Sections) : TextsNonEmpty(Sections[j])

\* returned: the OCR output held a fragment that strips to nothing and a
\* fragment of nothing but an underscore, which became a text of the
\* document
C17_Witness ==
  /\ Done
  /\ \E a, b \in 1..Len(ocr_results) :
       /\ Strip(ocr_results[a].text) = <<>>
       /\ ocr_results[b].text = T_underscore
  /\ Len(blocks) = Len(ocr_results) - 1
  /\ Sections # <<>>

(***************************************************************************)
(* Claims about fix_common_ocr_errors (SpecNorm).                          *)
(***************************************************************************)
Normed == pc = "normed"

WLetters == {"w", "W"}

\* s[k .. k+2] is a run of exactly three letters w or W, no such letter
\* before or after it
IsWwwRun(s, k) ==
  /\ k >= 1
  /\ k + 2 <= Len(s)
  /\ \A d \in 0..2 : s[k + d] \in WLetters
  /\ k > 1 => s[k - 1] \notin WLetters
  /\ k + 3 <= Len(s) => s[k + 3] \notin WLetters

(***************************************************************************)
(* C18: fix_common_ocr_errors rewrites every occurrence of the three       *)
(* letters w/W, in any of the 8 upper/lower-case combinations, to          *)
(* lowercase "www".  No step of the function adds, removes or joins        *)
(* letters w, so the occurrences of the input are those of the output.     *)
(***************************************************************************)
C18_EveryWwwCaseLowered ==
  Normed =>
    \A k \in 1..Len(text_out) :
      IsWwwRun(text_out, k) => SubSeq(text_out, k, k + 2) = <<"w", "w", "w">>

\* s with every maximal run of whitespace and underscores replaced by one dot
RECURSIVE CollapseRuns(_, _)
CollapseRuns(s, k) ==
  IF k > Len(s) THEN <<>>
  ELSE IF s[k] \in Sep
       THEN IF k > 1 /\ s[k - 1] \in Sep THEN CollapseRuns(s, k + 1)
            ELSE <<".">> \o CollapseRuns(s, k + 1)
       ELSE <<s[k]>> \o CollapseRuns(s, k + 1)

\* s with every letter W in lower case
LowerW(s) == [k \in 1..Len(s) |-> IF s[k] = "W" THEN "w" ELSE s[k]]

\* words and separator runs only: no dot, no comma or semicolon, no letter I
PlainWords(s) == \A k \in 1..Len(s) : s[k] \notin {".", ",", ";", "I"}

\* sub occurs in s
Contains(s, sub) ==
  \E k \in 1..(Len(s) - Len(sub) + 1) : SubSeq(s, k, k + Len(sub) - 1) = sub

T_wwwExampleCom ==
  <<"w","w","w",".","e","x","a","m","p","l","e",".","c","o","m">>

(***************************************************************************)
(* C19: fix_common_ocr_errors applies its steps in the fixed order, so     *)
(* that a text made of words separated by runs of spaces or underscores    *)
(* comes out with each run replaced by exactly one dot (and nothing else   *)
(* changed but the case of the letters w); "wwW example  com" yields a     *)
(* string containing "www.example.com".                                    *)
(***************************************************************************)
C19_SeparatorRunsBecomeOneDot ==
  Normed =>
    /\ PlainWords(text_in) =>
         LowerW(text_out) = LowerW(CollapseRuns(text_in, 1))
    /\ \A k \in 1..Len(text_out) : text_out[k] \notin Sep
    /\ text_in = ScenarioUrl => Contains(text_out, T_wwwExampleCom)

\* the URL of the specification's section 8, with its run of two spaces, has
\* been normalised
C19_Witness ==
  /\ Normed
  /\ text_in = ScenarioUrl
  /\ PlainWords(text_in)
  /\ text_out = T_wwwExampleCom

(***************************************************************************)
(* Claims about split_markdown_into_chapters (SpecSplit).                  *)
(***************************************************************************)
\* a line of the form "# title" or "## title"
IsHeading(l) ==
  \/ Len(l) >= 3 /\ SubSeq(l, 1, 2) = <<"#", " ">>
  \/ Len(l) >= 4 /\ SubSeq(l, 1, 3) = <<"#", "#", " ">>

HeadingTitle(l) ==
  IF l[2] = " " THEN Strip(SubSeq(l, 3, Len(l))) ELSE Strip(SubSeq(l, 4, Len(l)))

\* the number of the first heading among ls[k..], Len(ls) + 1 if none
RECURSIVE NextHeading(_, _)
NextHeading(ls, k) ==
  IF k > Len(ls) \/ IsHeading(ls[k]) THEN k ELSE NextHeading(ls, k + 1)

\* one (title, body) pair per heading line from line k on, k a heading
RECURSIVE ChaptersFrom(_, _)
ChaptersFrom(ls, k) ==
  IF k > Len(ls) THEN <<>>
  ELSE LET n == NextHeading(ls, k + 1)
       IN  <<<<HeadingTitle(ls[k]), Strip(Join(<<NL>>, SubSeq(ls, k + 1, n - 1)))>>>>
             \o ChaptersFrom(ls, n)

(***************************************************************************)
(* C20: split_markdown_into_chapters returns, for a text with no line of   *)
(* the form "# title" or "## title", the single pair ("Full Document",     *)
(* the whole text unchanged); otherwise one (title, body) pair per H1/H2   *)
(* heading line, in document order, each body being the stripped text      *)
(* between that heading and the next H1/H2 heading or the end; deeper      *)
(* headings (###) do not split.                                            *)
(***************************************************************************)
C20_OneChapterPerHeading ==
  pc = "chapters" =>
    \A ls \in {SplitLines(markdown_text)} :
      IF \E k \in 1..Len(ls) : IsHeading(ls[k])
      THEN chapters = ChaptersFrom(ls, NextHeading(ls, 1))
      ELSE chapters = <<<<T_FullDocument, markdown_text>>>>

\* split: a text whose first line is not a heading, with an H1 and an H2
\* heading line and a ### line that stayed in a body
C20_Witness ==
  /\ pc = "chapters"
  /\ Len(chapters) = 2
  /\ ~IsHeading(SplitLines(markdown_text)[1])
  /\ \E k \in 1..Len(chapters) : Contains(chapters[k][2], <<"#", "#", "#", " ">>)

(***************************************************************************)
(* Claims about summarize_chapter (SpecSum, SpecSumConc).                  *)
(***************************************************************************)
\* the calls that returned a path
Saved == {k \in 1..Len(log) : log[k].path # NoPath}

\* the least count from c on whose numbered path is not in  taken
RECURSIVE FreeCount(_, _, _)
FreeCount(safe, taken, c) ==
  IF c > MaxCount \/ NumberedPath(safe, c) \notin taken THEN c
  ELSE FreeCount(safe, taken, c + 1)

\* the path summarize_chapter is to choose in a folder holding  taken
FreePath(safe, taken) ==
  IF FirstPath(safe) \notin taken THEN FirstPath(safe)
  ELSE NumberedPath(safe, FreeCount(safe, taken, 1))

(***************************************************************************)
(* C21: summarize_chapter never overwrites an existing summary file: in    *)
(* any sequence of successful calls the path a call writes to did not      *)
(* exist when the call started, files written by earlier calls keep their  *)
(* content, and calls with the same output_filename write distinct files   *)
(* name.md, name_1.md, name_2.md, ... and return distinct paths.           *)
(***************************************************************************)
C21_NeverOverwrites ==
  /\ \A k \in Saved :
       /\ log[k].path \notin log[k].start
       /\ log[k].path = FreePath(Sanitize(log[k].name), log[k].start)
       /\ <<log[k].path, log[k].text>> \in fs
       /\ \A j \in Saved : j # k => log[j].path # log[k].path
  /\ \A k \in 1..Len(log) : \A p \in log[k].start : Exists(fs, p)
  /\ (log # <<>> /\ log[1].start # {}) => <<FirstPath(T_a), OldContent>> \in fs

\* three calls with the same file name have returned three paths, the file
\* a.md having been there before the first of them
C21_Witness ==
  /\ Len(log) = 3
  /\ Saved = {1, 2, 3}
  /\ \A k \in Saved : log[k].name = T_a_slash
  /\ log[1].start # {}
  /\ log[3].path = <<"a", "_", "3", ".", "m", "d">>

(***************************************************************************)
(* C22: summarize_chapter never raises to its caller: a failure of the     *)
(* model call, of directory creation or of the file write is returned as   *)
(* the pair (error message, None); a failure of language detection alone   *)
(* is not an error, the language is "ar" and the call proceeds; the        *)
(* returned path is not None only when the summary was written to it.      *)
(***************************************************************************)
C22_FailuresAreReturned ==
  /\ \A k \in 1..Len(log) :
       /\ log[k].kind = "returned"
       /\ log[k].path = NoPath <=> log[k].text = ErrorText
       /\ log[k].path # NoPath =>
            /\ log[k].text \in {NoSummaryText, <<"summary", log[k].id>>}
            /\ <<log[k].path, log[k].text>> \in fs
  /\ \A s \in SumSessions :
       ses[s].pc \notin {"idle", "detect"} =>
         /\ ses[s].lang \in {"en", "ar"}
         /\ ses[s].id = Len(log) + 1

\* an earlier call returned the error pair; the present call could not
\* detect the language and has written its summary all the same
C22_Witness ==
  /\ \E k \in 1..Len(log) : log[k].text = ErrorText /\ log[k].path = NoPath
  /\ ses[1].pc = "return"
  /\ ses[1].lang = "ar"
  /\ <<ses[1].path, ses[1].summary>> \in fs

\* the sessions whose call has chosen its output path
Chosen == {s \in SumSessions : ses[s].pc \in {"open", "write", "return"}}

(***************************************************************************)
(* C29: when two summarize_chapter calls with the same sanitized           *)
(* output_filename run concurrently, they never choose the same output     *)
(* path: under every interleaving of their path tests and file writes      *)
(* each call writes its own file and neither summary is overwritten by     *)
(* the other.                                                              *)
(***************************************************************************)
C29_ConcurrentCallsDistinctPaths ==
  /\ \A s, t \in Chosen : s # t => ses[s].path # ses[t].path
  /\ \A j, k \in Saved : j # k => log[j].path # log[k].path
  /\ \A k \in Saved : <<log[k].path, log[k].text>> \in fs

\* the page numbers start..min(end, total_pages) of the call, in order
ClaimedPages ==
  LET last == PyMin(pdf_call.end, total_pages)
  IN  [k \in 1..(IF pdf_call.start > last THEN 0 ELSE last - pdf_call.start + 1)
         |-> pdf_call.start + k - 1]

(***************************************************************************)
(* C23: convert_pdf_to_images(path, start, end) with start >= 1 returns    *)
(* exactly one saved image path per page number in                         *)
(* start..min(end, total_pages), in ascending page order (an empty list    *)
(* when start > min(end, total_pages)), never indexes a page beyond the    *)
(* document, and returns an empty list when the conversion itself fails.   *)
(***************************************************************************)
C23_OnePathPerPageInRange ==
  pdf_call.start >= 1 =>
    /\ pdf_err # "IndexError"
    /\ pdf_pc = "returned" /\ total_pages = None => pdf_ret = <<>>
    /\ pdf_pc = "returned" /\ total_pages # None =>
         /\ Len(pdf_ret) = Len(ClaimedPages)
         /\ \A k \in 1..Len(pdf_ret) :
              /\ pdf_ret[k][2] = ClaimedPages[k]
              /\ <<pdf_ret[k], ClaimedPages[k]>> \in static
         /\ \A j, k \in 1..Len(pdf_ret) : j # k => pdf_ret[j] # pdf_ret[k]

C23_Witness ==
  /\ pdf_pc = "returned"
  /\ pdf_call.start = 2
  /\ pdf_call.end > total_pages
  /\ Len(pdf_ret) = 2

\* the lines built so far, the one under construction included
LinesSoFar == IF current_line = <<>> THEN lines ELSE Append(lines, current_line)

\* every block of the line is within y_threshold of the line's first block
WithinOfFirst(line) ==
  \A j \in 1..Len(line) :
    Abs(line[j].center_y - line[1].center_y) < Quarter * y_thresh

(***************************************************************************)
(* C24: the line grouper does not bound a line's total vertical span.  A   *)
(* block joins the line when it is less than y_threshold from the block    *)
(* before it, so two blocks of a line that are n places apart are less     *)
(* than n * y_threshold apart and nothing smaller is guaranteed: a chain   *)
(* of three or more blocks, each less than y_threshold below its           *)
(* predecessor, gives a line with two blocks whose center_y differ by      *)
(* y_threshold or more (the witness).                                      *)
(***************************************************************************)
C24_OnlyNeighboursAreBounded ==
  \A k \in 1..Len(LinesSoFar) :
    \A i, j \in 1..Len(LinesSoFar[k]) :
      i < j =>
        Abs(LineY(LinesSoFar[k][j]) - LineY(LinesSoFar[k][i]))
          < (j - i) * Quarter * y_thresh

C24_Witness ==
  /\ Grouped
  /\ \E k \in 1..Len(lines) :
       /\ Len(lines[k]) >= 3
       /\ \A j \in 1..(Len(lines[k]) - 1) :
            /\ lines[k][j + 1].center_y > lines[k][j].center_y
            /\ lines[k][j + 1].center_y - lines[k][j].center_y < Quarter * y_thresh
       /\ ~WithinOfFirst(lines[k])

\* the blocks have pairwise distinct center_y and pairwise distinct min_x
DistinctKeys(bs) ==
  \A a, b \in 1..Len(bs) :
    a # b => bs[a].center_y # bs[b].center_y /\ bs[a].bbox[1] # bs[b].bbox[1]

Permuted(s, f) == [k \in 1..Len(s) |-> s[f[k]]]

(***************************************************************************)
(* C25: analyze_layout does not depend on the order of the OCR output.     *)
(* When all blocks have pairwise distinct center_y and pairwise distinct   *)
(* bbox min_x, the document returned for the fragment list is the document *)
(* analyze_layout gives for every permutation of the list: same title,     *)
(* same sections, rows and cells.                                          *)
(***************************************************************************)
C25_OrderOfFragmentsIrrelevant ==
  (Done /\ DistinctKeys(blocks)) =>
    \A f \in Perms(Len(ocr_results)) :
      analyze_layout(Permuted(ocr_results, f)) = structured

\* three fragments that did not arrive top to bottom gave a title and a
\* table row whose cells did not arrive left to right
C25_Witness ==
  /\ Done
  /\ DistinctKeys(blocks)
  /\ Len(blocks) >= 3
  /\ blocks # BlocksOf(ocr_results)
  /\ structured.title # <<>>
  /\ \E j \in 1..Len(Sections) : IsTable(Sections[j])
  /\ BlocksOf(ocr_results)[1].bbox[1] > BlocksOf(ocr_results)[Len(blocks)].bbox[1]

\* what a section holds, as rows of texts: the rows of a table, or the one
\* text of a paragraph
RowsOf(sec) == IF IsTable(sec) THEN sec.table ELSE <<<<sec.paragraph>>>>

\* the sections read in order
ReadSections(secs) == Flatten([j \in 1..Len(secs) |-> RowsOf(secs[j])])

\* the texts of the lines 1..n that were not taken as the title, in line order
RECURSIVE NonTitleTexts(_)
NonTitleTexts(n) ==
  IF n = 0 THEN <<>>
  ELSE IF n = title_line THEN NonTitleTexts(n - 1)
  ELSE Append(NonTitleTexts(n - 1),
              IF Len(lines[n]) >= 2 THEN LineTexts(n) ELSE <<LineTexts(n)[1]>>)

Count(P(_), s) == Cardinality({k \in 1..Len(s) : P(s[k])})

\* the total number of table rows of the sections
TableRowCount(secs) ==
  Len(Flatten([j \in 1..Len(secs) |-> IF IsTable(secs[j]) THEN secs[j].table ELSE <<>>]))

(***************************************************************************)
(* C26: the classifier loses and duplicates no line.  After any prefix of  *)
(* the lines, (1 if the title has been set, else 0) + the number of        *)
(* paragraph sections + the total number of table rows is the number of    *)
(* lines processed, and the sections read in order (paragraph texts and    *)
(* table rows) are the texts of the non-title lines in line order;         *)
(* sections are never removed or reordered and only the last section can   *)
(* gain a row.                                                             *)
(***************************************************************************)
C26_ClassifierKeepsEveryLine ==
  /\ [](Grouped =>
          /\ (IF title_set THEN 1 ELSE 0) + Count(IsParagraph, Sections)
               + TableRowCount(Sections) = li - 1
          /\ ReadSections(Sections) = NonTitleTexts(li - 1))
  /\ [][ClassifyStep =>
          LET n == Len(Sections)
          IN  /\ Len(Sections') >= n
              /\ \A j \in 1..(n - 1) : Sections'[j] = Sections[j]
              /\ n > 0 =>
                   \/ Sections'[n] = Sections[n]
                   \/ /\ IsTable(Sections[n])
                      /\ IsTable(Sections'[n])
                      /\ Len(Sections') = n
                      /\ SubSeq(Sections'[n].table, 1, Len(Sections[n].table))
                           = Sections[n].table
                      /\ Len(Sections'[n].table) = Len(Sections[n].table) + 1]_vars

\* a title between two rows of one table, then a paragraph: four lines done
C26_Witness ==
  /\ Done
  /\ li = 5
  /\ title_line = 2
  /\ Len(Sections) = 2
  /\ IsTable(Sections[1])
  /\ Len(Sections[1].table) = 2
  /\ IsParagraph(Sections[2])

\* the documents analyze_layout has produced or is producing
Documents ==
  {full_structured[i] : i \in 1..Len(full_structured)} \cup {structured}

\* the tables of a document
TablesOf(doc) ==
  {doc.sections[j].table : j \in {k \in 1..Len(doc.sections) : IsTable(doc.sections[k])}}

\* to_markdown of src/main_easy.py takes its else branch for the table:
\* not len(table[0]) > 1
SingleColumnBranch(table) == ~(Len(table[1]) > 1)

(***************************************************************************)
(* C27: in every document produced by analyze_layout each table section    *)
(* has at least one row and every row has at least 2 cells; so table[0]    *)
(* exists when to_markdown reads it, and the single-column branch of       *)
(* to_markdown in src/main_easy.py (the lone cell as a bare line) is not   *)
(* taken for such a document.                                              *)
(***************************************************************************)
C27_TablesHaveRowsOfTwoCells ==
  \A doc \in Documents : \A table \in TablesOf(doc) :
    /\ Len(table) >= 1
    /\ \A r \in 1..Len(table) : Len(table[r]) >= 2
    /\ ~SingleColumnBranch(table)
    /\ TableEntries(table) = <<PipeRow(table[1]), SepRow(table[1])>>

\* src/main_easy.py rendered a document with a table of one row and a
\* document with a table of two rows
C27_Witness ==
  /\ Rendered
  /\ variant = "main_easy"
  /\ \E doc \in Documents : \E table \in TablesOf(doc) : Len(table) = 1
  /\ \E doc \in Documents : \E table \in TablesOf(doc) : Len(table) = 2

(***************************************************************************)
(* C28: the result of fix_common_ocr_errors contains no whitespace         *)
(* character, no underscore and no two consecutive dots: after the         *)
(* whitespace/underscore-to-dot step and the dot-collapse step nothing     *)
(* brings them back, so the two final steps (trimming whitespace around @  *)
(* and around .) never change the string.                                  *)
(***************************************************************************)
C28_NoSeparatorsLeft ==
  Normed =>
    /\ \A k \in 1..Len(text_out) : text_out[k] \notin WhiteSpace \cup {"_"}
    /\ ~Contains(text_out, <<".", ".">>)
    /\ \A t \in {UrlSteps(text_in)} :
         /\ ReSub("at", <<"@">>, t) = t
         /\ ReSub("dot", <<".">>, t) = t
         /\ text_out = t

\* a dot, a space and an @: the space became a second dot, the two dots one
C28_Witness ==
  /\ Normed
  /\ text_in = <<".", " ", "@">>
  /\ text_out = <<".", "@">>

\* the place in chapter_titles of the p-th selected chapter
RECURSIVE ChosenPlace(_, _)
ChosenPlace(p, k) ==
  IF k \in chosen THEN (IF p = 1 THEN k ELSE ChosenPlace(p - 1, k + 1))
  ELSE ChosenPlace(p, k + 1)

\* the name in the text input of the p-th selected chapter
EnteredName(p) == output_names[<<selected_chapters[p], p - 1>>]

(***************************************************************************)
(* C30: in the "By Chapters" mode, for every subset of chapters the user   *)
(* selects, each selected chapter is summarized under the output file name *)
(* entered for it in its text input, and no unselected chapter is          *)
(* summarized.  (A selected chapter whose body is empty is reported as     *)
(* empty and not summarized; the statement is made for the others.)        *)
(***************************************************************************)
C30_SelectedChaptersUseEnteredNames ==
  /\ \A c \in 1..Len(calls) : calls[c].idx + 1 \in chosen
  /\ sel_pc = "done" =>
       \A p \in 1..Len(selected_chapters) :
         LET k == ChosenPlace(p, 1)
         IN  Strip(chapter_bodies[k]) # <<>> =>
               \E c \in 1..Len(calls) :
                 /\ calls[c].idx = k - 1
                 /\ calls[c].body = chapter_bodies[k]
                 /\ calls[c].name = EnteredName(p)

=============================================================================
